---- MODULE Spec2Model ----
(***************************************************************************)
(* Verification model of the Vita genetic-programming kernel.              *)
(*                                                                         *)
(* The module holds several specifications over one set of variables:      *)
(*   Spec        the linear genome (kernel/individual.cc) and its          *)
(*               operators                                                 *)
(*   SpecCache   the fitness cache behind the evaluator proxy              *)
(*   SpecThreads concurrent evaluations on one cache                       *)
(*   SpecPrim    the numeric primitives applied to their arguments         *)
(*   SpecInterp  the interpreter and its memo cache                        *)
(*   SpecLoad    loading persistent objects from a stream                  *)
(*   SpecSeal    the cache cleared without a limit                         *)
(*   SpecPack    packing and unpacking of the active code                  *)
(*   SpecEquiv   the output of an individual and of its compacted copy     *)
(*   SpecCreate  random creation for every code length                     *)
(*   SpecMut     mutation with a given probability                         *)
(*   SpecCatalog the symbol set with categories and weights                *)
(*   SpecGen     generalize against the individual before the call         *)
(*   SpecPop     the layers of the population over a run                   *)
(*   SpecSearch  the search driver and the cache of its evaluator         *)
(*   SpecSig     the signature of a differential-evolution individual     *)
(*   SpecAdf     the arguments of an automatically defined function       *)
(*   SpecDss     dynamic subset selection over the training examples      *)
(*   SpecInt     the integer primitives in the width of int               *)
(*   SpecScale   the weights of the automatically defined symbols         *)
(*   SpecRuns    the bookkeeping of the runs of a search                  *)
(*   SpecRound   a population saved and read back                         *)
(* Each specification drives one subsystem and leaves the variables of    *)
(* the others at their initial value.                                     *)
(***************************************************************************)
EXTENDS Integers, Sequences, FiniteSets, TLC

VARIABLES sset, ind, parent, off, op, ret, ndebug, cache, cres, fresh, thr,
          pname, pargs, pres, itp, stream, pop, prx, lam, lret, views, pick,
          active, ttab, sch, runs, exs

\* The genome subsystem: the symbol set of the environment, the receiver of
\* the operators, the second parent, the returned individual, the last
\* operation and its other outputs.
genomeVars == <<sset, ind, parent, off, op, ret>>

\* The fitness cache and the outcome of the last call on it.
\* fresh: the signatures inserted since the last clear of the whole table.
cacheVars == <<cache, cres, fresh>>

\* The position and the locals of every evaluation running on the cache.
threadVars == <<thr>>

\* ndebug: whether the build defines NDEBUG.
\* A primitive, the values its arguments evaluate to and what it returned.
primVars == <<pname, pargs, pres>>

\* The interpreter after its last run on ind.
interpVars == <<itp>>

\* The stream a load reads, the objects that receive a load and the outcome
\* of the last load.
loadVars == <<stream, pop, prx, lam, lret>>

\* The views of the symbol set (one collection per category, then the
\* collection of all symbols) and the outcome of the last roulette call.
catalogVars == <<views, pick>>

\* The search driver: the active example set, the cache of the active
\* evaluator, the position of the driver with the last fitness it was
\* given, the bookkeeping of the runs and the training examples.
searchVars == <<active, ttab, sch, runs, exs>>

vars == <<sset, ind, parent, off, op, ret, ndebug, cache, cres, fresh, thr,
          pname, pargs, pres, itp, stream, pop, prx, lam, lret, views,
          pick, active, ttab, sch, runs, exs>>

\* No symbol registered and no symbol drawn.
NoPick == [c |-> 0, sym |-> ""]

CatalogOff == views = <<>> /\ pick = NoPick

SearchOff ==
  active = {} /\ ttab = <<>> /\ sch = <<>> /\ runs = <<>> /\ exs = <<>>


(***************************************************************************)
(* Bounds.                                                                 *)
(***************************************************************************)
\* environment::code_length: number of loci of every genome.
CodeLength == 3

\* largest max_args handed to individual::generalize.
MaxArgs == 2

\* number of slots of the cache.
TableSize == 2

\* fitness values are <<1>>..<<MaxFit>>.
MaxFit == 2

\* calls of find and of clear that a behaviour may make.
MaxProbes == 2

MaxClears == 1

\* concurrent evaluations.
NThreads == 2

\* finite doubles are -DblMax..DblMax; a larger magnitude is an infinity.
DblMax == 2

\* The largest number of a stream, its longest length, the largest opcode of
\* the symbol set and environment::individuals.
MaxTok == 2

MaxStream == 6

MaxOpcode == 1

EnvIndividuals == 1

\* int is IntMin..IntMax, IntMin = -IntMax - 1.
IntMax == 2

(***************************************************************************)
(* Symbols.  A terminal has arity 0 (symbol::terminal).                    *)
(***************************************************************************)
\* Terminals (sr::variable, sr::number) and functions (sr::abs, sr::ln, sr::add, sr::div)
\* a symbol set may hold.
Terminals == {"X", "Y", "NUM"}

Functions == {"ABS", "LN", "ADD", "DIV"}

\* The symbol set of the crossover specification and the richer one of the
\* single-individual specification.
SmallSet == {"X", "ADD"}

FullSet == {"X", "Y", "ABS", "LN", "ADD", "DIV"}

\* symbol_set::arg(n): the n-th argument placeholder (a terminal).
ArgNames == <<"ARG0", "ARG1", "ARG2", "ARG3">>

arg(n) == ArgNames[n + 1]

ArgSymbols == {ArgNames[k] : k \in 1..Len(ArgNames)}

\* symbol::arity
arity(s) ==
  IF s \in {"ADD", "DIV"} THEN 2 ELSE IF s \in {"ABS", "LN"} THEN 1 ELSE 0

\* symbol::terminal
terminal(s) == arity(s) = 0

\* symbol::parametric: the terminal sr::number keeps its value in gene::par.
parametric(s) == s = "NUM"

(***************************************************************************)
(* Genes.  A gene is a symbol, a parameter and one locus per argument.     *)
(***************************************************************************)
mkgene(s, a) == [sym |-> s, par |-> 0, args |-> a]

\* Tuples of n loci drawn from lo..hi.
ArgTuples(n, lo, hi) == [1..n -> lo..hi]

\* gene::gene(sset, from, sup): a random symbol whose arguments are loci of
\* [from, sup); a terminal when no such locus exists.
RandomGenes(ss, from, sup) ==
  IF from < sup
    THEN UNION {{mkgene(s, a) : a \in ArgTuples(arity(s), from, sup - 1)}
                : s \in ss}
    ELSE {mkgene(s, <<>>) : s \in ss \cap Terminals}

\* gene::gene(sset): a random terminal.
RandomTerminals(ss) == {mkgene(s, <<>>) : s \in ss \cap Terminals}

(***************************************************************************)
(* Individuals: _code indexed 0..size-1 and the root locus _best.          *)
(***************************************************************************)
Loci == 0..(CodeLength - 1)

NoInd == [code |-> <<>>, best |-> 0]

\* individual::size
size(x) == Cardinality(DOMAIN x.code)

\* individual::individual(e, true): every locus i gets gene(sset, i+1, size).
RECURSIVE RandomCodes(_, _)
RandomCodes(ss, n) ==
  IF n = 0 THEN {<<>>}
  ELSE {[i \in 0..(n - 1) |-> IF i = n - 1 THEN g ELSE c[i]] :
          c \in RandomCodes(ss, n - 1),
          g \in RandomGenes(ss, n, CodeLength)}

RandomInds(ss) == {[code |-> c, best |-> 0] : c \in RandomCodes(ss, CodeLength)}

\* Forward-reference rule for one gene at locus i of a genome of n loci.
ForwardGene(g, i, n) ==
  \A j \in 1..Len(g.args) : g.args[j] > i /\ g.args[j] < n

\* Forward-reference rule for a whole genome.
ForwardRefs(x) ==
  \A i \in DOMAIN x.code : ForwardGene(x.code[i], i, size(x))

(***************************************************************************)
(* individual::const_iterator: the loci of the active program, visited in  *)
(* increasing order from _best; every visited gene contributes its         *)
(* arguments to the ordered set _lines.                                    *)
(***************************************************************************)
SetMin(S) == CHOOSE m \in S : \A k \in S : m <= k

ArgSet(g) == {g.args[j] : j \in 1..Len(g.args)}

RECURSIVE Walk(_, _)
Walk(x, lines) ==
  IF lines = {} THEN <<>>
  ELSE LET l == SetMin(lines)
       IN  <<l>> \o Walk(x, (lines \ {l}) \cup ArgSet(x.code[l]))

\* The sequence of loci the iterator yields.
ActiveLines(x) == Walk(x, {x.best})

\* individual::eff_size
eff_size(x) == Len(ActiveLines(x))

\* basic_gene::k_args
gene_args == 4

\* individual::check
check(x) ==
  LET al == ActiveLines(x)
  IN  /\ size(x) = CodeLength
      /\ \A k \in 1..Len(al) :
           LET g == x.code[al[k]]
           IN  /\ g.sym # ""
               /\ arity(g.sym) <= gene_args
               /\ \A j \in 1..Len(g.args) :
                    ~(g.args[j] >= size(x) \/ g.args[j] <= al[k])
      /\ x.best < size(x)
      /\ terminal(x.code[al[Len(al)]].sym)
      /\ eff_size(x) <= size(x)

(***************************************************************************)
(* Genetic operators.                                                      *)
(***************************************************************************)
\* individual::individual(e, false): code_length empty genes, _best = 0.
EmptyGene == [sym |-> "", par |-> 0, args |-> <<>>]

EmptyInd == [code |-> [i \in Loci |-> EmptyGene], best |-> 0]

\* The loop of individual::mutation over the loci below i: every locus l
\* either keeps its gene or receives gene(sset, l + d, size), and n counts the
\* redrawn loci.  The code calls it with d = 1.
RECURSIVE MutationLoop(_, _, _, _)
MutationLoop(x, ss, i, d) ==
  IF i = 0 THEN {[ind |-> x, n |-> 0]}
  ELSE UNION {{r} \cup
              {[ind |-> [r.ind EXCEPT !.code =
                           [r.ind.code EXCEPT ![i - 1] = g]],
                n |-> r.n + 1] : g \in RandomGenes(ss, i - 1 + d, size(x))}
              : r \in MutationLoop(x, ss, i - 1, d)}

\* mutation with gene(sset, l, size) drawn for locus l: a gene may name its
\* own locus.
mutation_from_own_locus(x, ss) == MutationLoop(x, ss, size(x), 0)

\* individual::mutation: the receiver after the call and the count returned.
mutation(x, ss) == MutationLoop(x, ss, size(x), 1)

\* individual::uniform_cross: each locus from this or from the parent.
uniform_cross(x, p) ==
  LET cs == size(x)
  IN  {[EmptyInd EXCEPT !.code =
          [i \in DOMAIN EmptyInd.code |->
             IF i < cs THEN (IF coin[i] THEN x.code[i] ELSE p.code[i])
                       ELSE EmptyInd.code[i]]]
        : coin \in [0..(cs - 1) -> BOOLEAN]}

\* cross1 appending to an empty code vector and stopping one locus early.
cross1_short(x, p) ==
  LET cs == size(x)
      par(b) == IF b THEN p ELSE x
  IN  {[code |-> [i \in 0..(cs - 2) |->
                    IF i < cut THEN par(base).code[i]
                               ELSE par(~base).code[i]],
        best |-> 0]
        : cut \in 0..(cs - 2), base \in BOOLEAN}

\* individual::cross1: one cut; loci before it from one parent, the rest from
\* the other.
cross1(x, p) ==
  LET cs == size(x)
      par(b) == IF b THEN p ELSE x
  IN  {[EmptyInd EXCEPT !.code =
          [i \in DOMAIN EmptyInd.code |->
             IF i < cut THEN par(base).code[i]
             ELSE IF i < cs THEN par(~base).code[i]
             ELSE EmptyInd.code[i]]]
        : cut \in 0..(cs - 2), base \in BOOLEAN}

\* individual::cross2: two cuts; the middle segment from the other parent.
cross2(x, p) ==
  LET cs == size(x)
      par(b) == IF b THEN p ELSE x
  IN  UNION {{[EmptyInd EXCEPT !.code =
                 [i \in DOMAIN EmptyInd.code |->
                    IF i < cut1 THEN par(base).code[i]
                    ELSE IF i < cut2 THEN par(~base).code[i]
                    ELSE IF i < cs THEN par(base).code[i]
                    ELSE EmptyInd.code[i]]]
               : cut2 \in (cut1 + 1)..(cs - 1), base \in BOOLEAN}
             : cut1 \in 0..(cs - 2)}

\* A gene with every argument locus a rewritten to m[a].
MapArgs(g, m) ==
  [g EXCEPT !.args = [j \in 1..Len(g.args) |-> m[g.args[j]]]]

\* The loop of individual::compact: the k-th active gene of x is stored at
\* locus k-1 of dest and the arguments of the genes before it that named its
\* old locus are redirected.  dest keeps the _best it was copied with.
RECURSIVE CompactLoop(_, _, _, _)
CompactLoop(dest, x, al, k) ==
  IF k > Len(al) THEN dest
  ELSE LET new_line == k - 1
           old_line == al[k]
           c1 == [dest.code EXCEPT ![new_line] = x.code[old_line]]
           c2 == [i \in DOMAIN c1 |->
                    IF i < new_line
                      THEN MapArgs(c1[i], [a \in 0..CodeLength |->
                                     IF a = old_line THEN new_line ELSE a])
                      ELSE c1[i]]
       IN  CompactLoop([dest EXCEPT !.code = c2], x, al, k + 1)

\* individual::compact
compact(x) ==
  [ind |-> CompactLoop(x, x, ActiveLines(x), 1),
   last_symbol |-> eff_size(x) - 1]

\* The loop of individual::optimize over i, with first_terminal ft and
\* last_terminal lt.
RECURSIVE OptLoop(_, _, _, _)
OptLoop(s, i, ft, lt) ==
  IF ~(i < ft) THEN [ind |-> s, first_t |-> ft, last_s |-> lt]
  ELSE IF ~terminal(s.code[i].sym) THEN OptLoop(s, i + 1, ft, lt)
  ELSE
    LET cand == {j \in ft..lt : s.code[i] = s.code[j]}
        found == IF cand = {} THEN 0 ELSE SetMin(cand)
    IN  IF found # 0
          THEN LET c == [j \in DOMAIN s.code |->
                           IF 1 <= j /\ j <= i
                             THEN MapArgs(s.code[j - 1], [a \in 0..CodeLength |->
                                            IF a = i THEN found
                                            ELSE IF a < i THEN a + 1 ELSE a])
                             ELSE s.code[j]]
               IN  OptLoop([code |-> c, best |-> s.best + 1], i + 1, ft, lt)
          ELSE LET ft1 == ft - 1
               IN  IF ft1 # i
                     THEN LET c1 == [j \in DOMAIN s.code |->
                                       IF s.best <= j /\ j < i
                                         THEN MapArgs(s.code[j], [a \in 0..CodeLength |->
                                                IF a = i THEN ft1
                                                ELSE IF i < a /\ a <= ft1
                                                  THEN a - 1 ELSE a])
                                         ELSE s.code[j]]
                              g == c1[i]
                              c2 == [j \in DOMAIN c1 |->
                                       IF i <= j /\ j < ft1
                                         THEN MapArgs(c1[j + 1], [a \in 0..CodeLength |->
                                                IF a <= ft1 THEN a - 1 ELSE a])
                                       ELSE IF j = ft1 THEN g
                                       ELSE c1[j]]
                          IN  OptLoop([s EXCEPT !.code = c2], i, ft1, lt)
                     ELSE OptLoop(s, i + 1, ft1, lt)

\* individual::optimize
optimize(x) ==
  LET c == compact(x)
  IN  OptLoop(c.ind, 1, c.last_symbol, c.last_symbol)

\* individual::replace(sym, args, line)
replace(x, sym, args, line) ==
  [x EXCEPT !.code = [x.code EXCEPT ![line] = mkgene(sym, args)]]

\* individual::destroy_block: the gene at line becomes a random terminal.
destroy_block(x, ss, line) ==
  {[x EXCEPT !.code = [x.code EXCEPT ![line] = t]]
     : t \in RandomTerminals(ss)}

\* Active terminal loci of x, in iteration order (generalize, step 1).
ActiveTerminals(x) ==
  LET al == ActiveLines(x)
      F[k \in 0..Len(al)] ==
        IF k = 0 THEN <<>>
        ELSE IF terminal(x.code[al[k]].sym) THEN Append(F[k - 1], al[k])
        ELSE F[k - 1]
  IN  F[Len(al)]

\* generalize, step 2: for j < n swap terminals[j] with terminals[r],
\* r drawn from [j, terminals.size()).
RECURSIVE Shuffle(_, _, _)
Shuffle(t, j, n) ==
  IF j >= n THEN {t}
  ELSE UNION {Shuffle([t EXCEPT ![j + 1] = t[r + 1], ![r + 1] = t[j + 1]],
                      j + 1, n)
              : r \in j..(Len(t) - 1)}

\* generalize, step 3 giving every chosen terminal the symbol arg(0).
RECURSIVE substitute_first_arg(_, _, _, _)
substitute_first_arg(x, t, j, n) ==
  IF j >= n THEN x
  ELSE substitute_first_arg(
         [x EXCEPT !.code =
            [x.code EXCEPT ![t[j + 1]] = [@ EXCEPT !.sym = arg(0)]]],
         t, j + 1, n)

\* generalize, step 3: terminals[j] gets the symbol arg(j), j < n.
RECURSIVE Substitute(_, _, _, _)
Substitute(x, t, j, n) ==
  IF j >= n THEN x
  ELSE Substitute(
         [x EXCEPT !.code =
            [x.code EXCEPT ![t[j + 1]] = [@ EXCEPT !.sym = arg(j)]]],
         t, j + 1, n)

\* symbol::type of every symbol of the set (one type).
type(s) == 0

\* individual::generalize: the receiver after the call and the positions and
\* types it reports.
generalize(x, max_args) ==
  LET terminals == ActiveTerminals(x)
      n == IF max_args < Len(terminals) THEN max_args ELSE Len(terminals)
      ts == IF n < size(x) THEN Shuffle(terminals, 0, n) ELSE {terminals}
  IN  {[ind |-> Substitute(x, t, 0, n),
        positions |-> SubSeq(t, 1, n),
        types |-> [j \in 1..n |-> type(x.code[t[j]].sym)]] : t \in ts}

(***************************************************************************)
(* Operations of the genome specification.  ind is the receiver, parent    *)
(* the second operand, off the individual an operator returns, op the last *)
(* operation and ret its other outputs.                                    *)
(***************************************************************************)
\* A state from which the caller starts a new operation on ind.
Idle == op \in {"construct", "adopt", "mutation"}

\* i = <returned individual>: the caller keeps the result of an operator.
Adopt ==
  /\ off # NoInd
  /\ op # "generalize"
  /\ ind' = off
  /\ parent' = NoInd
  /\ off' = NoInd
  /\ op' = "adopt"
  /\ ret' = <<>>
  /\ UNCHANGED sset

Mutation ==
  /\ Idle
  /\ \E r \in mutation(ind, sset) :
       /\ ind' = r.ind
       /\ ret' = <<r.n>>
  /\ parent' = NoInd
  /\ off' = NoInd
  /\ op' = "mutation"
  /\ UNCHANGED sset

\* uniform_cross writing the offspring over its receiver.
UniformCrossInPlace ==
  /\ Idle
  /\ \E p \in RandomInds(sset) :
       /\ parent' = p
       /\ off' \in uniform_cross(ind, p)
  /\ ind' = off'
  /\ op' = "uniform_cross"
  /\ UNCHANGED <<sset, ret>>

UniformCross ==
  /\ Idle
  /\ \E p \in RandomInds(sset) :
       /\ parent' = p
       /\ off' \in uniform_cross(ind, p)
  /\ op' = "uniform_cross"
  /\ UNCHANGED <<sset, ind, ret>>

Cross1 ==
  /\ Idle
  /\ \E p \in RandomInds(sset) :
       /\ parent' = p
       /\ off' \in cross1(ind, p)
  /\ op' = "cross1"
  /\ UNCHANGED <<sset, ind, ret>>

Cross2 ==
  /\ Idle
  /\ \E p \in RandomInds(sset) :
       /\ parent' = p
       /\ off' \in cross2(ind, p)
  /\ op' = "cross2"
  /\ UNCHANGED <<sset, ind, ret>>

Compact ==
  /\ Idle
  /\ LET r == compact(ind)
     IN  /\ off' = r.ind
         /\ ret' = <<r.last_symbol>>
  /\ parent' = NoInd
  /\ op' = "compact"
  /\ UNCHANGED <<sset, ind>>

Optimize ==
  /\ Idle
  /\ LET r == optimize(ind)
     IN  /\ off' = r.ind
         /\ ret' = <<r.first_t, r.last_s>>
  /\ parent' = NoInd
  /\ op' = "optimize"
  /\ UNCHANGED <<sset, ind>>

\* replace with a symbol and argument loci that fit the replaced line.
Replace ==
  /\ Idle
  /\ \E line \in DOMAIN ind.code :
       \E g \in RandomGenes(sset, line + 1, size(ind)) :
         /\ off' = replace(ind, g.sym, g.args, line)
         /\ ret' = <<line>>
  /\ parent' = NoInd
  /\ op' = "replace"
  /\ UNCHANGED <<sset, ind>>

DestroyBlock ==
  /\ Idle
  /\ \E line \in DOMAIN ind.code :
       /\ line < size(ind)
       /\ ~terminal(ind.code[line].sym)
       /\ off' \in destroy_block(ind, sset, line)
       /\ ret' = <<line>>
  /\ parent' = NoInd
  /\ op' = "destroy_block"
  /\ UNCHANGED <<sset, ind>>

\* generalize rewrites the receiver.
Generalize ==
  /\ Idle
  /\ \E max_args \in 1..MaxArgs :
       \E r \in generalize(ind, max_args) :
         /\ ind' = r.ind
         /\ ret' = <<r.positions, r.types>>
  /\ parent' = NoInd
  /\ off' = NoInd
  /\ op' = "generalize"
  /\ UNCHANGED sset

\* The state after individual::individual(e, true) under symbol set ss.
GenomeInit(ss) ==
  /\ sset = ss
  /\ ind \in RandomInds(ss)
  /\ parent = NoInd
  /\ off = NoInd
  /\ op = "construct"
  /\ ret = <<>>

\* The operators that work on one individual.
UnaryNext ==
  \/ Adopt
  \/ Mutation
  \/ Compact
  \/ Optimize
  \/ Replace
  \/ DestroyBlock
  \/ Generalize

\* The crossovers.
CrossNext ==
  \/ UniformCross
  \/ Cross1
  \/ Cross2

(***************************************************************************)
(* Values.  An any is empty or holds a double, an int or a bool; Fault is  *)
(* the failed any_cast of an empty any.  The result of a C++ floating      *)
(* operation is a finite number, an infinity or a NaN.  Finite doubles are *)
(* the integers of -DblMax..DblMax and inexact results are rounded.        *)
(***************************************************************************)
Empty == [k |-> "empty", v |-> 0]

Fault == [k |-> "fault", v |-> 0]

Num(n) == [k |-> "num", v |-> n]

Bool(b) == [k |-> "bool", v |-> IF b THEN 1 ELSE 0]

Inf(sgn) == [k |-> "inf", v |-> sgn]

NaN == [k |-> "nan", v |-> 0]

empty(a) == a.k = "empty"

isinf(r) == r.k = "inf"

isnan(r) == r.k = "nan"

\* is_bad: infinite or not a number.
is_bad(r) == isinf(r) \/ isnan(r)

isfinite(r) == r.k = "num"

Abs(n) == IF n < 0 THEN -n ELSE n

Sgn(n) == IF n < 0 THEN -1 ELSE IF n > 0 THEN 1 ELSE 0

\* The double nearest to the real n: an infinity beyond the largest double.
Round(n) == IF Abs(n) > DblMax THEN Inf(Sgn(n)) ELSE Num(n)

\* Quotient truncated toward zero and the remainder with the dividend's
\* sign, as C computes them.
TruncDiv(a, b) == Sgn(a) * Sgn(b) * (Abs(a) \div Abs(b))

TruncMod(a, b) == a - b * TruncDiv(a, b)

\* Quotient rounded toward minus infinity (std::floor of the quotient).
FloorDiv(a, b) == IF b > 0 THEN a \div b ELSE (-a) \div (-b)

\* a / b on doubles.
fdiv(a, b) ==
  IF b = 0 THEN (IF a = 0 THEN NaN ELSE Inf(Sgn(a)))
  ELSE Round(TruncDiv(a, b))

\* std::floor(a / b)
ffloordiv(a, b) ==
  IF b = 0 THEN (IF a = 0 THEN NaN ELSE Inf(Sgn(a)))
  ELSE Round(FloorDiv(a, b))

\* std::fmod(a, b)
fmod(a, b) == IF b = 0 THEN NaN ELSE Num(TruncMod(a, b))

RECURSIVE Log2(_)
Log2(n) == IF n <= 1 THEN 0 ELSE 1 + Log2(n \div 2)

\* std::log(a)
flog(a) == IF a < 0 THEN NaN ELSE IF a = 0 THEN Inf(-1) ELSE Num(Log2(a))

RECURSIVE Isqrt(_, _)
Isqrt(n, r) == IF (r + 1) * (r + 1) > n THEN r ELSE Isqrt(n, r + 1)

(***************************************************************************)
(* Floating-point primitives of double_pri.h (namespace sr, "dbl") and of  *)
(* real.h, on the values a0, a1, ... their arguments evaluate to.          *)
(***************************************************************************)
dbl_abs(a0) == IF empty(a0) THEN a0 ELSE Num(Abs(a0.v))

dbl_add(a0, a1) ==
  IF empty(a0) THEN a0
  ELSE IF empty(a1) THEN a1
  ELSE LET r == Round(a0.v + a1.v) IN IF isinf(r) THEN Empty ELSE r

\* div returning the quotient unchecked.
dbl_div_unchecked(a0, a1) ==
  IF empty(a0) THEN a0
  ELSE IF empty(a1) THEN a1
  ELSE fdiv(a0.v, a1.v)

dbl_div(a0, a1) ==
  IF empty(a0) THEN a0
  ELSE IF empty(a1) THEN a1
  ELSE LET r == fdiv(a0.v, a1.v) IN IF is_bad(r) THEN Empty ELSE r

dbl_idiv(a0, a1) ==
  IF empty(a0) THEN a0
  ELSE IF empty(a1) THEN a1
  ELSE LET r == ffloordiv(a0.v, a1.v) IN IF is_bad(r) THEN Empty ELSE r

dbl_ife(a0, a1, a2, a3) ==
  IF empty(a0) THEN a0
  ELSE IF empty(a1) THEN a1
  ELSE IF a0.v = a1.v THEN a2 ELSE a3

dbl_ifl(a0, a1, a2, a3) ==
  IF empty(a0) THEN a0
  ELSE IF empty(a1) THEN a1
  ELSE IF a0.v < a1.v THEN a2 ELSE a3

dbl_ifz(a0, a1, a2) ==
  IF empty(a0) THEN a0
  ELSE IF a0.v = 0 THEN a1 ELSE a2

dbl_ln(a0) ==
  IF empty(a0) THEN a0
  ELSE LET r == flog(a0.v) IN IF is_bad(r) THEN Empty ELSE r

dbl_mod(a0, a1) ==
  IF empty(a0) THEN a0
  ELSE IF empty(a1) THEN a1
  ELSE LET r == fmod(a0.v, a1.v) IN IF is_bad(r) THEN Empty ELSE r

dbl_mul(a0, a1) ==
  IF empty(a0) THEN a0
  ELSE IF empty(a1) THEN a1
  ELSE LET r == Round(a0.v * a1.v) IN IF isinf(r) THEN Empty ELSE r

dbl_sub(a0, a1) ==
  IF empty(a0) THEN a0
  ELSE IF empty(a1) THEN a1
  ELSE LET r == Round(a0.v - a1.v) IN IF isinf(r) THEN Empty ELSE r

\* real.h, base(v): any_cast<double>(v), which fails on an empty any.
base(a) == IF empty(a) THEN Fault ELSE a

real_div(a0, a1) ==
  IF empty(a0) THEN a0
  ELSE IF empty(a1) THEN a1
  ELSE LET r == fdiv(a0.v, a1.v) IN IF ~isfinite(r) THEN Empty ELSE r

\* real::gt: isgreater(base(fetch_arg(0)), base(fetch_arg(1)))
real_gt(a0, a1) ==
  IF base(a0) = Fault \/ base(a1) = Fault THEN Fault
  ELSE Bool(a0.v > a1.v)

\* real::lt: isless(base(fetch_arg(0)), base(fetch_arg(1)))
real_lt(a0, a1) ==
  IF base(a0) = Fault \/ base(a1) = Fault THEN Fault
  ELSE Bool(a0.v < a1.v)

real_ln(a0) ==
  IF empty(a0) THEN a0
  ELSE LET r == flog(a0.v) IN IF ~isfinite(r) THEN Empty ELSE r

real_max(a0, a1) ==
  IF empty(a0) THEN a0
  ELSE IF empty(a1) THEN a1
  ELSE Num(IF a0.v < a1.v THEN a1.v ELSE a0.v)

real_sqrt(a0) ==
  IF empty(a0) THEN a0
  ELSE IF a0.v < 0 THEN Empty ELSE Num(Isqrt(a0.v, 0))

(***************************************************************************)
(* Integer primitives of int.h on int, here IntMin..IntMax.                *)
(***************************************************************************)
IntMin == -IntMax - 1

\* integer::cast: any_cast<int>(v), which fails on an empty any.
cast(a) == IF empty(a) THEN Fault ELSE a

integer_add(a0, a1) ==
  IF cast(a0) = Fault \/ cast(a1) = Fault THEN Fault
  ELSE LET v0 == a0.v
           v1 == a1.v
       IN  IF v0 > 0 /\ v1 > 0 /\ v0 > IntMax - v1 THEN Num(IntMax)
           ELSE IF v0 < 0 /\ v1 < 0 /\ v0 < IntMin - v1 THEN Num(IntMin)
           ELSE Num(v0 + v1)

integer_div(a0, a1) ==
  IF cast(a0) = Fault \/ cast(a1) = Fault THEN Fault
  ELSE LET v0 == a0.v
           v1 == a1.v
       IN  IF v1 = 0 \/ (v0 = IntMin /\ v1 = -1) THEN Num(v0)
           ELSE Num(TruncDiv(v0, v1))

integer_mod(a0, a1) ==
  IF cast(a0) = Fault \/ cast(a1) = Fault THEN Fault
  ELSE LET v0 == a0.v
           v1 == a1.v
       IN  IF v1 = 0 \/ (v0 = IntMin /\ v1 = -1) THEN Num(v1)
           ELSE Num(TruncMod(v0, v1))

(***************************************************************************)
(* One primitive applied to the values of its arguments.                   *)
(***************************************************************************)
FloatPrims ==
  {"dbl::abs", "dbl::add", "dbl::div", "dbl::idiv", "dbl::ife", "dbl::ifl",
   "dbl::ifz", "dbl::ln", "dbl::mod", "dbl::mul", "dbl::sub", "real::div",
   "real::gt", "real::ln", "real::lt", "real::max", "real::sqrt"}

IntPrims == {"integer::add", "integer::div", "integer::mod"}

\* function::arity of each primitive.
PrimArity(name) ==
  IF name \in {"dbl::abs", "dbl::ln", "real::ln", "real::sqrt"} THEN 1
  ELSE IF name \in {"dbl::ife", "dbl::ifl"} THEN 4
  ELSE IF name = "dbl::ifz" THEN 3
  ELSE 2

\* symbol::eval of each primitive.
prim_eval(name, a) ==
  CASE name = "dbl::abs" -> dbl_abs(a[1])
    [] name = "dbl::add" -> dbl_add(a[1], a[2])
    [] name = "dbl::div" -> dbl_div(a[1], a[2])
    [] name = "dbl::idiv" -> dbl_idiv(a[1], a[2])
    [] name = "dbl::ife" -> dbl_ife(a[1], a[2], a[3], a[4])
    [] name = "dbl::ifl" -> dbl_ifl(a[1], a[2], a[3], a[4])
    [] name = "dbl::ifz" -> dbl_ifz(a[1], a[2], a[3])
    [] name = "dbl::ln" -> dbl_ln(a[1])
    [] name = "dbl::mod" -> dbl_mod(a[1], a[2])
    [] name = "dbl::mul" -> dbl_mul(a[1], a[2])
    [] name = "dbl::sub" -> dbl_sub(a[1], a[2])
    [] name = "real::div" -> real_div(a[1], a[2])
    [] name = "real::gt" -> real_gt(a[1], a[2])
    [] name = "real::ln" -> real_ln(a[1])
    [] name = "real::lt" -> real_lt(a[1], a[2])
    [] name = "real::max" -> real_max(a[1], a[2])
    [] name = "real::sqrt" -> real_sqrt(a[1])
    [] name = "integer::add" -> integer_add(a[1], a[2])
    [] name = "integer::div" -> integer_div(a[1], a[2])
    [] name = "integer::mod" -> integer_mod(a[1], a[2])

\* What an argument of a floating-point primitive evaluates to: a finite
\* double, or nothing when the sub-program is undefined.
FloatVals == {Empty} \cup {Num(n) : n \in (-DblMax)..DblMax}

\* What an argument of an integer primitive evaluates to.
IntVals == {Num(n) : n \in IntMin..IntMax}

ArgVals(name) ==
  [1..PrimArity(name) -> IF name \in IntPrims THEN IntVals ELSE FloatVals]

\* No result yet: the primitive has not been evaluated.
Pending == [k |-> "pending", v |-> 0]

PrimOff == pname = "none" /\ pargs = <<>> /\ pres = Pending

\* A primitive about to be evaluated on the values of its arguments.
PrimInit ==
  /\ pname \in FloatPrims \cup IntPrims
  /\ pargs \in ArgVals(pname)
  /\ pres = Pending

\* symbol::eval
ApplyPrim ==
  /\ pname # "none"
  /\ pres = Pending
  /\ pres' = prim_eval(pname, pargs)
  /\ UNCHANGED <<pname, pargs>>

(***************************************************************************)
(* The interpreter (interpreter.cc).  Its state in a run: the memo _cache  *)
(* of every locus, and, to observe the run, how often each gene was        *)
(* evaluated, how often each locus was requested and the values the        *)
(* requests returned.                                                      *)
(***************************************************************************)
\* The values of the input variables X and Y.
Inputs == [x : {-1, 0, 1}, y : {-1, 0, 1}]

\* interpreter::run, the loop that empties _cache.
ClearedRun(x) ==
  [cache |-> [l \in DOMAIN x.code |-> [empty |-> TRUE, value |-> Empty]],
   evals |-> [l \in DOMAIN x.code |-> 0],
   requests |-> [l \in DOMAIN x.code |-> 0],
   served |-> [l \in DOMAIN x.code |-> {}],
   ok |-> TRUE]

RECURSIVE eval_gene(_, _, _, _, _)

\* interpreter::eval(i) without the memo: the argument is always evaluated
\* and never stored.
eval_arg_no_memo(x, inp, st, ip, i, nd) ==
  LET locus == x.code[ip].args[i]
      st1 == [st EXCEPT !.requests[locus] = @ + 1]
      r == eval_gene(x, inp, st1, locus, nd)
  IN  [st |-> [r.st EXCEPT !.served[locus] = @ \cup {r.v}], v |-> r.v]

\* interpreter::eval(i): the value of the i-th argument of the gene at ip.
eval_arg(x, inp, st, ip, i, nd) ==
  LET locus == x.code[ip].args[i]
      st1 == [st EXCEPT !.requests[locus] = @ + 1]
  IN  IF st1.cache[locus].empty
        THEN LET r == eval_gene(x, inp, st1, locus, nd)
             IN  [st |-> [r.st EXCEPT
                            !.cache[locus] = [empty |-> FALSE, value |-> r.v],
                            !.served[locus] = @ \cup {r.v}],
                  v |-> r.v]
      ELSE IF ~nd
        THEN LET r == eval_gene(x, inp, st1, locus, nd)
                 stored == r.st.cache[locus].value
             IN  [st |-> [r.st EXCEPT
                            !.served[locus] = @ \cup {stored},
                            !.ok = @ /\ r.v = stored],
                  v |-> stored]
      ELSE [st |-> [st1 EXCEPT !.served[locus] =
                                  @ \cup {st1.cache[locus].value}],
            v |-> st1.cache[locus].value]

\* symbol::eval of the gene at ip: variable::eval, abs, ln, add and div of
\* double_pri.h, which stop at the first undefined argument.
eval_gene(x, inp, st, ip, nd) ==
  LET sym == x.code[ip].sym
      st1 == [st EXCEPT !.evals[ip] = @ + 1]
  IN  IF sym = "X" THEN [st |-> st1, v |-> Num(inp.x)]
      ELSE IF sym = "Y" THEN [st |-> st1, v |-> Num(inp.y)]
      ELSE
        LET r0 == eval_arg(x, inp, st1, ip, 1, nd)
        IN  IF empty(r0.v) THEN r0
            ELSE IF sym = "ABS" THEN [st |-> r0.st, v |-> dbl_abs(r0.v)]
            ELSE IF sym = "LN"
              THEN LET r0b == eval_arg(x, inp, r0.st, ip, 1, nd)
                   IN  [st |-> r0b.st, v |-> dbl_ln(r0b.v)]
            ELSE
              LET r1 == eval_arg(x, inp, r0.st, ip, 2, nd)
              IN  IF empty(r1.v) THEN r1
                  ELSE [st |-> r1.st,
                        v |-> IF sym = "ADD" THEN dbl_add(r0.v, r1.v)
                                             ELSE dbl_div(r0.v, r1.v)]

\* interpreter::run
run(x, inp, nd) ==
  LET r == eval_gene(x, inp, ClearedRun(x), x.best, nd)
  IN  [ran |-> TRUE, input |-> inp, cache |-> r.st.cache,
       evals |-> r.st.evals, requests |-> r.st.requests,
       served |-> r.st.served, ok |-> r.st.ok, out |-> r.v]

NoRun ==
  [ran |-> FALSE, input |-> [x |-> 0, y |-> 0], cache |-> <<>>,
   evals |-> <<>>, requests |-> <<>>, served |-> <<>>, ok |-> TRUE,
   out |-> Empty]

InterpOff == itp = NoRun

\* One run of the interpreter on ind.
Execute ==
  \E inp \in Inputs :
    LET r == run(ind, inp, ndebug)
    IN  /\ r.ok
        /\ itp' = r

(***************************************************************************)
(* Persistence: population::load, evaluator_proxy::load and                *)
(* basic_dyn_slot_lambda_f::load_ reading a stream of tokens.  A token is  *)
(* a number, or text that no numeric extraction accepts.                   *)
(***************************************************************************)
BadToken == MaxTok + 1

Tokens == 0..BadToken

Streams == UNION {[1..n -> Tokens] : n \in 0..MaxStream}

\* in >> v : fails at the end of the stream and on text.
Extract(s, pos) ==
  IF pos <= Len(s) /\ s[pos] # BadToken
    THEN [ok |-> TRUE, v |-> s[pos], pos |-> pos + 1]
    ELSE [ok |-> FALSE, v |-> 0, pos |-> pos]

\* symbol_set::decode finds a symbol for the opcodes of the set only.
decode(opcode) == opcode <= MaxOpcode

\* The loop of i_de::load_impl that reads n genes into the temporary v.
RECURSIVE LoadGenes(_, _, _, _)
LoadGenes(s, pos, n, v) ==
  IF n = 0 THEN [ok |-> TRUE, v |-> v, pos |-> pos]
  ELSE
    LET opcode == Extract(s, pos)
        par == Extract(s, opcode.pos)
    IN  IF ~opcode.ok \/ ~decode(opcode.v) \/ ~par.ok
          THEN [ok |-> FALSE, v |-> v, pos |-> pos]
          ELSE LoadGenes(s, par.pos, n - 1, Append(v, <<opcode.v, par.v>>))

\* i_de::load_impl : the genome is assigned after every gene was read.
load_impl(x, s, pos) ==
  LET sz == Extract(s, pos)
      g == LoadGenes(s, sz.pos, sz.v, <<>>)
  IN  IF sz.ok /\ g.ok
        THEN [ok |-> TRUE, ind |-> g.v, pos |-> g.pos]
        ELSE [ok |-> FALSE, ind |-> x, pos |-> pos]

\* The individuals a random construction gives.
RandomDe == {<< <<o, 0>> >> : o \in 0..MaxOpcode}

\* population::population(e, sset): one layer of e.individuals random
\* individuals.
NewPopulation == {<<layer>> : layer \in [1..EnvIndividuals -> RandomDe]}

\* The inner loop of population::load over the individuals i..n-1 of layer
\* l of the temporary population p.  population::operator[] asserts that
\* the coordinates are in range; with NDEBUG an access out of range is
\* undefined: the process may crash, or the individual is read into stray
\* memory and the loop goes on.
RECURSIVE LoadElems(_, _, _, _, _, _, _)
LoadElems(p, s, pos, l, i, n, nd) ==
  IF i = n THEN {[st |-> "ok", p |-> p, pos |-> pos]}
  ELSE IF l < Len(p) /\ i < Len(p[l + 1])
    THEN LET r == load_impl(p[l + 1][i + 1], s, pos)
         IN  IF ~r.ok THEN {[st |-> "false", p |-> p, pos |-> pos]}
             ELSE LoadElems([p EXCEPT ![l + 1][i + 1] = r.ind], s, r.pos,
                            l, i + 1, n, nd)
  ELSE IF ~nd THEN {[st |-> "abort", p |-> p, pos |-> pos]}
  ELSE {[st |-> "crash", p |-> p, pos |-> pos]} \cup
       (LET r == load_impl(<<>>, s, pos)
        IN  IF ~r.ok THEN {[st |-> "false", p |-> p, pos |-> pos]}
            ELSE LoadElems(p, s, r.pos, l, i + 1, n, nd))

\* The outer loop of population::load over the layers l..n_layers-1.
RECURSIVE LoadLayers(_, _, _, _, _, _)
LoadLayers(p, s, pos, l, n_layers, nd) ==
  IF l = n_layers THEN {[st |-> "ok", p |-> p, pos |-> pos]}
  ELSE
    LET n_elem == Extract(s, pos)
    IN  IF ~n_elem.ok THEN {[st |-> "false", p |-> p, pos |-> pos]}
        ELSE UNION {IF e.st = "ok"
                      THEN LoadLayers(e.p, s, e.pos, l + 1, n_layers, nd)
                      ELSE {e} :
                    e \in LoadElems(p, s, n_elem.pos, l, 0, n_elem.v, nd)}

\* population::load : the outcomes [ret, pop] of loading s into x.
population_load(x, s, nd) ==
  LET n_layers == Extract(s, 1)
  IN  IF ~n_layers.ok THEN {[ret |-> "false", pop |-> x]}
      ELSE UNION {{[ret |-> IF e.st = "ok" THEN "true" ELSE e.st,
                    pop |-> IF e.st = "ok" THEN e.p ELSE x] :
                   e \in LoadLayers(p, s, n_layers.pos, 0, n_layers.v, nd)} :
                  p \in NewPopulation}

\* The load of the evaluator: its state is one number.
eva_load(eva, s, pos) ==
  LET e == Extract(s, pos)
  IN  [ok |-> e.ok, eva |-> IF e.ok THEN e.v ELSE eva, pos |-> e.pos]

\* The loop of a load that reads n numbers into the temporary v.
RECURSIVE LoadNumbers(_, _, _, _)
LoadNumbers(s, pos, n, v) ==
  IF n = 0 THEN [ok |-> TRUE, v |-> v, pos |-> pos]
  ELSE LET e == Extract(s, pos)
       IN  IF ~e.ok THEN [ok |-> FALSE, v |-> v, pos |-> pos]
           ELSE LoadNumbers(s, e.pos, n - 1, Append(v, e.v))

\* cache::load : a count and the stored values, assigned after all of them
\* were read.
cache_load(c, s, pos) ==
  LET n == Extract(s, pos)
      r == LoadNumbers(s, n.pos, n.v, <<>>)
  IN  IF n.ok /\ r.ok
        THEN [ok |-> TRUE, cache |-> r.v, pos |-> r.pos]
        ELSE [ok |-> FALSE, cache |-> c, pos |-> pos]

\* evaluator_proxy::load : eva_.load(in) && cache_.load(in)
proxy_load(x, s) ==
  LET e == eva_load(x.eva, s, 1)
      c == cache_load(x.cache, s, e.pos)
  IN  IF ~e.ok THEN [ret |-> "false", prx |-> x]
      ELSE [ret |-> IF c.ok THEN "true" ELSE "false",
            prx |-> [eva |-> e.eva, cache |-> c.cache]]

\* matrix::rows
rows(m) == IF m.cols # 0 THEN Len(m.data) \div m.cols ELSE 0

\* matrix::load : cols, rows and the elements, assigned after all of them
\* were read.
matrix_load(m, s, pos) ==
  LET cs == Extract(s, pos)
      rs == Extract(s, cs.pos)
      v == LoadNumbers(s, rs.pos, cs.v * rs.v, <<>>)
  IN  IF cs.ok /\ rs.ok /\ v.ok
        THEN [ok |-> TRUE, m |-> [cols |-> cs.v, data |-> v.v], pos |-> v.pos]
        ELSE [ok |-> FALSE, m |-> m, pos |-> pos]

\* reg_lambda_f_storage::load and class_names::load : one number each.
number_load(x, s, pos) ==
  LET e == Extract(s, pos)
  IN  [ok |-> e.ok, v |-> IF e.ok THEN e.v ELSE x, pos |-> e.pos]

\* basic_dyn_slot_lambda_f::load_ : every member is read into a temporary
\* and the members are assigned at the end.
lambda_load(x, s) ==
  LET l == number_load(x.lambda, s, 1)
      m == matrix_load([cols |-> 0, data |-> <<>>], s, l.pos)
      sc == LoadNumbers(s, m.pos, rows(x.slot_matrix), <<>>)
      d == Extract(s, sc.pos)
      names == number_load(x.names, s, d.pos)
  IN  IF l.ok /\ m.ok /\ sc.ok /\ d.ok /\ names.ok
        THEN [ret |-> "true",
              lam |-> [lambda |-> l.v, slot_matrix |-> m.m,
                       slot_class |-> sc.v, dataset_size |-> d.v,
                       names |-> names.v]]
        ELSE [ret |-> "false", lam |-> x]

\* The objects before a load.
OldPopulation == << << << <<0, 0>> >> >> >>

OldProxy == [eva |-> 0, cache |-> <<>>]

OldLambda ==
  [lambda |-> 0, slot_matrix |-> [cols |-> 2, data |-> <<0, 0>>],
   slot_class |-> <<0>>, dataset_size |-> 0, names |-> 0]

NoLoad == [obj |-> "none", ret |-> "none"]

LoadOff ==
  /\ stream = <<>>
  /\ pop = OldPopulation
  /\ prx = OldProxy
  /\ lam = OldLambda
  /\ lret = NoLoad

LoadInit ==
  /\ stream \in Streams
  /\ pop = OldPopulation
  /\ prx = OldProxy
  /\ lam = OldLambda
  /\ lret = NoLoad

LoadPopulation ==
  /\ lret = NoLoad
  /\ \E r \in population_load(pop, stream, ndebug) :
       /\ pop' = r.pop
       /\ lret' = [obj |-> "population", ret |-> r.ret]
  /\ UNCHANGED <<stream, prx, lam>>

LoadProxy ==
  /\ lret = NoLoad
  /\ LET r == proxy_load(prx, stream)
     IN  /\ prx' = r.prx
         /\ lret' = [obj |-> "proxy", ret |-> r.ret]
  /\ UNCHANGED <<stream, pop, lam>>

LoadLambda ==
  /\ lret = NoLoad
  /\ LET r == lambda_load(lam, stream)
     IN  /\ lam' = r.lam
         /\ lret' = [obj |-> "lambda", ret |-> r.ret]
  /\ UNCHANGED <<stream, pop, prx>>

(***************************************************************************)
(* The fitness cache (cache.h, ttable.h): a direct-mapped table of slots   *)
(* {hash, fitness, seal}.  A fitness is a vector; the empty vector is the  *)
(* answer of a find that misses.                                           *)
(***************************************************************************)
\* Signatures: one more than there are slots, so that two of them share a
\* slot.
Sigs == 0..TableSize

Fits == {<<v>> : v \in 1..MaxFit}

NoFit == <<>>

\* k_mask: the table has k_mask + 1 slots.
k_mask == TableSize - 1

\* cache::index: the slot of a signature, hash mod table size.
index(h) == h % (k_mask + 1)

\* cache::slot, as the constructor leaves it.
EmptySlot == [hash |-> 0, fitness |-> NoFit, seal |-> 0]

\* cache::cache(bits)
NewCache ==
  [table |-> [i \in 0..k_mask |-> EmptySlot],
   seal |-> 1, probes |-> 0, hits |-> 0]

\* cache::insert that keeps a live entry of another signature and writes
\* the next slot instead.
insert_chained(c, h, f) ==
  LET s == c.table[index(h)]
      i == IF s.seal = c.seal /\ s.hash # h
             THEN (index(h) + 1) % (k_mask + 1) ELSE index(h)
  IN  [c EXCEPT !.table = [c.table EXCEPT ![i] =
                             [hash |-> h, fitness |-> f, seal |-> c.seal]]]

\* cache::insert: the slot of h receives {h, f, seal_}.
insert(c, h, f) ==
  [c EXCEPT !.table = [c.table EXCEPT ![index(h)] =
                         [hash |-> h, fitness |-> f, seal |-> c.seal]]]

\* Whether the slot s holds a live entry for h.
SlotHit(c, s, h) == s.seal = c.seal /\ s.hash = h

\* cache::find: counts the probe and, on a hit, the hit.
find(c, h) ==
  LET s == c.table[index(h)]
      hit == SlotHit(c, s, h)
  IN  [cache |-> [c EXCEPT !.probes = @ + 1,
                           !.hits = IF hit THEN @ + 1 ELSE @],
       fitness |-> IF hit THEN s.fitness ELSE NoFit]

\* The number of values of the unsigned slot::seal and seal_ (narrowed).
SealModulus == 4

\* cache::clear(): a new seal makes every stored slot stale; the seal is an
\* unsigned counter, so the increment wraps.
clear(c) ==
  [c EXCEPT !.seal = (@ + 1) % SealModulus, !.probes = 0, !.hits = 0]

\* Programs: a signature and the fitness the evaluator computes for it.
Programs == [sig : Sigs, fit : Fits]

\* evaluator_proxy::operator() with the call to the cache insert left out.
proxy_call_no_insert(c, prg, nd) ==
  LET r == find(c, prg.sig)
  IN  IF Len(r.fitness) > 0
        THEN [cache |-> r.cache, f |-> r.fitness, ok |-> TRUE]
        ELSE [cache |-> r.cache, f |-> prg.fit, ok |-> TRUE]

\* evaluator_proxy::operator() (and evaluator_proxy::run): the cache after
\* the call, the fitness returned and whether the assertions held.
proxy_call(c, prg, nd) ==
  LET r == find(c, prg.sig)
  IN  IF Len(r.fitness) > 0
        THEN [cache |-> r.cache, f |-> r.fitness, ok |-> r.cache.hits > 0]
        ELSE LET f == prg.fit
                 c1 == insert(r.cache, prg.sig, f)
                 r1 == find(c1, prg.sig)
             IN  IF nd THEN [cache |-> c1, f |-> f, ok |-> TRUE]
                 ELSE [cache |-> r1.cache, f |-> f,
                       ok |-> Len(r1.fitness) > 0 /\ r1.fitness = f]

NoRes == [name |-> "none", sig |-> 0, fit |-> NoFit, out |-> NoFit]

CacheOff == cache = NewCache /\ cres = NoRes /\ fresh = {}

Insert ==
  \E h \in Sigs, f \in Fits :
    /\ cache' = insert(cache, h, f)
    /\ cres' = [name |-> "insert", sig |-> h, fit |-> f, out |-> f]
    /\ fresh' = fresh \cup {h}
    /\ UNCHANGED ndebug

Find ==
  /\ cache.probes < MaxProbes
  /\ \E h \in Sigs :
       LET r == find(cache, h)
       IN  /\ cache' = r.cache
           /\ cres' = [name |-> "find", sig |-> h, fit |-> NoFit,
                       out |-> r.fitness]
  /\ UNCHANGED <<ndebug, fresh>>

\* evaluator_proxy::clear(all): cache_.clear().
Clear ==
  /\ cache.seal <= MaxClears
  /\ cache' = clear(cache)
  /\ cres' = [name |-> "clear", sig |-> 0, fit |-> NoFit, out |-> NoFit]
  /\ fresh' = {}
  /\ UNCHANGED ndebug

\* One evaluation through the proxy.
Run ==
  /\ cache.probes < MaxProbes
  /\ \E prg \in Programs :
       LET r == proxy_call(cache, prg, ndebug)
       IN  /\ r.ok
           /\ cache' = r.cache
           /\ cres' = [name |-> "run", sig |-> prg.sig, fit |-> prg.fit,
                       out |-> r.f]
           /\ fresh' = IF Len(find(cache, prg.sig).fitness) > 0
                         THEN fresh ELSE fresh \cup {prg.sig}
  /\ UNCHANGED ndebug

CacheNext ==
  \/ Insert
  \/ Find
  \/ Clear
  \/ Run

\* cache::clear() at any time, however often it was called before.
Reset ==
  /\ cache' = clear(cache)
  /\ cres' = [name |-> "clear", sig |-> 0, fit |-> NoFit, out |-> NoFit]
  /\ fresh' = {}
  /\ UNCHANGED ndebug

(***************************************************************************)
(* Concurrent evaluations on one cache.  cache.h declares no lock and the  *)
(* slot has three fields, so an insert is three writes and a find that     *)
(* matches the key reads the fitness in a later step.  Every thread runs   *)
(* evaluator_proxy::operator() on a program of signature sig.              *)
(***************************************************************************)
Threads == 1..NThreads

\* The fitness the evaluator computes for the program of signature h.
Eva(h) == <<h + 1>>

IdleThread == [pc |-> "idle", sig |-> 0, f |-> NoFit, out |-> NoFit]

ThreadsInit == thr = [t \in Threads |-> IdleThread]

\* The slot thread t works on.
SlotOf(t) == index(thr[t].sig)

\* operator(): fitness_t f(cache_.find(prg.signature()))
Call(t) ==
  /\ thr[t].pc = "idle"
  /\ cache.probes < MaxProbes
  /\ \E h \in Sigs :
       thr' = [thr EXCEPT ![t] = [pc |-> "find_key", sig |-> h,
                                  f |-> NoFit, out |-> NoFit]]
  /\ UNCHANGED <<ndebug, cache, cres, fresh>>

\* find: compares seal and hash of the slot and counts the probe.
FindKey(t) ==
  /\ thr[t].pc \in {"find_key", "dbg_key"}
  /\ LET hit == SlotHit(cache, cache.table[SlotOf(t)], thr[t].sig)
         dbg == thr[t].pc = "dbg_key"
     IN  /\ cache' = [cache EXCEPT !.probes = @ + 1,
                                   !.hits = IF hit THEN @ + 1 ELSE @]
         /\ thr' = [thr EXCEPT ![t].pc =
                      IF hit THEN (IF dbg THEN "dbg_fitness"
                                          ELSE "find_fitness")
                      ELSE (IF dbg THEN "aborted" ELSE "evaluate")]
  /\ UNCHANGED <<ndebug, cres, fresh>>

\* find: returns the fitness of the slot; operator() tests f.size().
FindFitness(t) ==
  /\ thr[t].pc = "find_fitness"
  /\ LET f == cache.table[SlotOf(t)].fitness
     IN  thr' = [thr EXCEPT ![t].out = f,
                            ![t].pc = IF Len(f) > 0 THEN "done"
                                                    ELSE "evaluate"]
  /\ UNCHANGED <<ndebug, cache, cres, fresh>>

\* f = eva_(prg)
Evaluate(t) ==
  /\ thr[t].pc = "evaluate"
  /\ thr' = [thr EXCEPT ![t].f = Eva(thr[t].sig), ![t].pc = "ins_hash"]
  /\ UNCHANGED <<ndebug, cache, cres, fresh>>

\* insert: slot.hash = h
InsHash(t) ==
  /\ thr[t].pc = "ins_hash"
  /\ cache' = [cache EXCEPT !.table[SlotOf(t)].hash = thr[t].sig]
  /\ thr' = [thr EXCEPT ![t].pc = "ins_fitness"]
  /\ UNCHANGED <<ndebug, cres, fresh>>

\* insert: slot.fitness = f
InsFitness(t) ==
  /\ thr[t].pc = "ins_fitness"
  /\ cache' = [cache EXCEPT !.table[SlotOf(t)].fitness = thr[t].f]
  /\ thr' = [thr EXCEPT ![t].pc = "ins_seal"]
  /\ UNCHANGED <<ndebug, cres, fresh>>

\* insert: slot.seal = seal_; a build without NDEBUG then looks the program
\* up again.
InsSeal(t) ==
  /\ thr[t].pc = "ins_seal"
  /\ cache' = [cache EXCEPT !.table[SlotOf(t)].seal = cache.seal]
  /\ thr' = [thr EXCEPT ![t].out = thr[t].f,
                        ![t].pc = IF ndebug THEN "done" ELSE "dbg_key"]
  /\ UNCHANGED <<ndebug, cres, fresh>>

\* assert(f1.size()); assert(almost_equal(f, f1))
DbgFitness(t) ==
  /\ thr[t].pc = "dbg_fitness"
  /\ LET f1 == cache.table[SlotOf(t)].fitness
     IN  thr' = [thr EXCEPT ![t].pc =
                   IF Len(f1) > 0 /\ f1 = thr[t].f THEN "done" ELSE "aborted"]
  /\ UNCHANGED <<ndebug, cache, cres, fresh>>

\* return f
Return(t) ==
  /\ thr[t].pc = "done"
  /\ thr' = [thr EXCEPT ![t] = IdleThread]
  /\ UNCHANGED <<ndebug, cache, cres, fresh>>

ThreadNext ==
  \E t \in Threads :
    \/ Call(t)
    \/ FindKey(t)
    \/ FindFitness(t)
    \/ Evaluate(t)
    \/ InsHash(t)
    \/ InsFitness(t)
    \/ InsSeal(t)
    \/ DbgFitness(t)
    \/ Return(t)

(***************************************************************************)
(* Spec: the genome under every operator, symbol set {X, ADD}.             *)
(***************************************************************************)
ThreadsOff == thr = <<>>

Init ==
  /\ GenomeInit(SmallSet)
  /\ ndebug = FALSE
  /\ CacheOff
  /\ ThreadsOff
  /\ PrimOff
  /\ InterpOff
  /\ LoadOff
  /\ CatalogOff
  /\ SearchOff

Next ==
  /\ UnaryNext \/ CrossNext
  /\ UNCHANGED <<ndebug, cacheVars, threadVars, primVars, interpVars,
                 loadVars,
                 catalogVars,
                 searchVars>>

Spec == Init /\ [][Next]_vars

\* Every individual of the state.
Individuals == {ind, parent, off}

CrossOps == {"uniform_cross", "cross1", "cross2"}

C5_LengthKept ==
  [][/\ op' = "mutation" => size(ind') = size(ind)
     /\ op' \in CrossOps
          => size(off') = size(ind) /\ size(off') = size(parent')]_vars

\* A mutation that redrew every locus.
C5_Witness ==
  /\ op = "mutation"
  /\ ret = <<CodeLength>>
  /\ size(ind) = CodeLength

\* C8: canonicalizing an already canonical individual changes nothing:
\* optimize of a result of optimize, and compact of a result of compact, is
\* that result.
C8_CanonicalIdempotent ==
  /\ op = "optimize" => optimize(off).ind = off
  /\ op = "compact" => compact(off).ind = off

(***************************************************************************)
(* SpecCache: find, insert, clear and proxied evaluations, one at a time.  *)
(***************************************************************************)
GenomeOff ==
  /\ sset = {}
  /\ ind = NoInd
  /\ parent = NoInd
  /\ off = NoInd
  /\ op = "none"
  /\ ret = <<>>

InitCache ==
  /\ GenomeOff
  /\ ndebug \in BOOLEAN
  /\ CacheOff
  /\ ThreadsOff
  /\ PrimOff
  /\ InterpOff
  /\ LoadOff
  /\ CatalogOff
  /\ SearchOff

NextCache ==
  /\ CacheNext
  /\ UNCHANGED <<genomeVars, threadVars, primVars, interpVars, loadVars,
                 catalogVars,
                 searchVars>>

SpecCache == InitCache /\ [][NextCache]_vars

\* C2: a find(s) that directly follows insert(s, f), or directly follows the
\* proxied evaluation of a program of signature s that returned f, reports a
\* hit and returns exactly f.
C2_FindAfterInsert ==
  [][cres.name \in {"insert", "run"} /\ cres'.name = "find"
       /\ cres'.sig = cres.sig
       => Len(cres'.out) > 0 /\ cres'.out = cres.out]_vars

\* A find that hit on the slot an insert has just overwritten with a second
\* signature's fitness.
C2_Witness ==
  /\ cres.name = "find"
  /\ Len(cres.out) > 0
  /\ cache.hits = 1
  /\ cache.probes = 2
  /\ cache.seal = 2

(***************************************************************************)
(* SpecThreads: NThreads evaluations share the cache.                      *)
(***************************************************************************)
\* C11: an insert writes the one slot its signature selects, whatever that
\* slot held, and leaves the other slots alone; after it a find of another
\* signature of the same slot misses.
C11_DirectMapped ==
  [][cres'.name = "insert" =>
       LET h == cres'.sig
       IN  /\ cache'.table[index(h)] =
                [hash |-> h, fitness |-> cres'.fit, seal |-> cache.seal]
           /\ \A i \in DOMAIN cache.table :
                i # index(h) => cache'.table[i] = cache.table[i]
           /\ \A g \in Sigs \ {h} :
                index(g) = index(h) => find(cache', g).fitness = NoFit]_vars

\* A find that misses on a slot holding the live entry of another signature.
C11_Witness ==
  /\ cres.name = "find"
  /\ cres.out = NoFit
  /\ cres.sig \in fresh
  /\ LET s == cache.table[index(cres.sig)]
     IN  s.seal = cache.seal /\ s.hash # cres.sig /\ Len(s.fitness) > 0

(***************************************************************************)
(* SpecSeal: inserts and finds on a cache that is cleared any number of    *)
(* times.                                                                  *)
(***************************************************************************)
NextSeal ==
  /\ (Insert \/ Find \/ Reset)
  /\ UNCHANGED <<genomeVars, threadVars, primVars, interpVars, loadVars,
                 catalogVars,
                 searchVars>>

SpecSeal == InitCache /\ [][NextSeal]_vars

\* C12: a find hits only a signature that was inserted after the last clear
\* of the whole table.
C12_StaleAfterClear ==
  (cres.name = "find" /\ Len(cres.out) > 0) => cres.sig \in fresh

InitThreads ==
  /\ GenomeOff
  /\ ndebug \in BOOLEAN
  /\ cache = NewCache
  /\ cres = NoRes
  /\ fresh = {}
  /\ ThreadsInit
  /\ PrimOff
  /\ InterpOff
  /\ LoadOff
  /\ CatalogOff
  /\ SearchOff

NextThreads ==
  /\ ThreadNext
  /\ UNCHANGED <<genomeVars, primVars, interpVars, loadVars,
                 catalogVars,
                 searchVars>>

SpecThreads == InitThreads /\ [][NextThreads]_vars

\* A thread that has done a part of its access to a slot and not the rest.
MidAccess(t) ==
  thr[t].pc \in {"find_fitness", "dbg_fitness", "ins_fitness", "ins_seal"}

\* C10: accesses to one slot exclude each other, and a find returns only the
\* fitness that was inserted for the signature it was asked for.
C10_SlotAccessSafe ==
  /\ \A t, u \in Threads :
       t # u /\ MidAccess(t) /\ MidAccess(u) => SlotOf(t) # SlotOf(u)
  /\ \A t \in Threads :
       thr[t].pc = "done" => thr[t].out = Eva(thr[t].sig)

(***************************************************************************)
(* SpecPrim: every primitive on every tuple of argument values.            *)
(***************************************************************************)
InitPrim ==
  /\ GenomeOff
  /\ ndebug = FALSE
  /\ CacheOff
  /\ ThreadsOff
  /\ PrimInit
  /\ InterpOff
  /\ LoadOff
  /\ CatalogOff
  /\ SearchOff

NextPrim ==
  /\ ApplyPrim
  /\ UNCHANGED <<genomeVars, ndebug, cacheVars, threadVars, interpVars,
                 loadVars,
                 catalogVars,
                 searchVars>>

SpecPrim == InitPrim /\ [][NextPrim]_vars

\* The arguments a primitive reads: the conditionals read their tests and
\* the branch the tests select, every other primitive reads all of them.
Reads(name, a) ==
  CASE name \in {"dbl::ife", "dbl::ifl"} ->
         IF empty(a[1]) \/ empty(a[2]) THEN {1, 2}
         ELSE {1, 2} \cup {IF prim_eval(name, a) = a[3] THEN 3 ELSE 4}
    [] name = "dbl::ifz" ->
         IF empty(a[1]) THEN {1}
         ELSE {1} \cup {IF a[1].v = 0 THEN 2 ELSE 3}
    [] OTHER -> 1..PrimArity(name)

\* C6: a primitive that reads an undefined argument returns undefined and
\* does not fault.
C6_UndefinedPropagates ==
  pres # Pending /\ (\E i \in Reads(pname, pargs) : empty(pargs[i]))
    => pres = Empty

\* The exact result of an arithmetic primitive on defined arguments.
Exact(name, a) ==
  CASE name \in {"dbl::add", "integer::add"} -> a[1].v + a[2].v
    [] name = "dbl::sub" -> a[1].v - a[2].v
    [] name = "dbl::mul" -> a[1].v * a[2].v
    [] OTHER -> 0

\* A numeric domain error: division by zero, logarithm of a non-positive
\* number, or a result outside the range of the type.
DomainError(name, a) ==
  /\ name # "none"
  /\ \A i \in 1..PrimArity(name) : ~empty(a[i])
  /\ \/ /\ name \in {"dbl::div", "dbl::idiv", "dbl::mod", "real::div",
                    "integer::div", "integer::mod"}
        /\ a[2].v = 0
     \/ name \in {"dbl::ln", "real::ln"} /\ a[1].v <= 0
     \/ /\ name \in {"dbl::add", "dbl::sub", "dbl::mul"}
        /\ Abs(Exact(name, a)) > DblMax
     \/ /\ name = "integer::add"
        /\ (Exact(name, a) > IntMax \/ Exact(name, a) < IntMin)
     \/ /\ name \in {"integer::div", "integer::mod"}
        /\ a[1].v = IntMin
        /\ a[2].v = -1

InitInterp ==
  /\ GenomeInit(FullSet)
  /\ ndebug \in BOOLEAN
  /\ CacheOff
  /\ ThreadsOff
  /\ PrimOff
  /\ InterpOff
  /\ LoadOff
  /\ CatalogOff
  /\ SearchOff

NextInterp ==
  /\ Execute
  /\ UNCHANGED <<genomeVars, ndebug, cacheVars, threadVars, primVars,
                 loadVars,
                 catalogVars,
                 searchVars>>

SpecInterp == InitInterp /\ [][NextInterp]_vars

\* C3 as stated: in one run the gene of every locus is evaluated at most
\* once.
C3_EvaluatedOnce ==
  itp.ran => \A l \in DOMAIN ind.code : itp.evals[l] <= 1

\* C3 amended: the first request for a locus stores the value of its gene
\* and every request returns the stored value; with NDEBUG the gene is
\* evaluated at most once, without NDEBUG it is evaluated once per request.
C3_ServedFromMemo ==
  itp.ran =>
    \A l \in DOMAIN ind.code :
      /\ itp.requests[l] > 0 =>
           /\ ~itp.cache[l].empty
           /\ itp.served[l] = {itp.cache[l].value}
      /\ ndebug => itp.evals[l] <= 1
      /\ ~ndebug =>
           itp.evals[l] = itp.requests[l] + (IF l = ind.best THEN 1 ELSE 0)

\* A run with NDEBUG in which a locus requested twice was evaluated once.
C3_Witness ==
  /\ itp.ran
  /\ ndebug
  /\ \E l \in DOMAIN ind.code : itp.requests[l] >= 2 /\ itp.evals[l] = 1

(***************************************************************************)
(* SpecLoad: one load of a population, of an evaluator proxy or of a slot  *)
(* lambda from any stream of at most MaxStream tokens, in a build with and *)
(* in a build without NDEBUG.                                              *)
(***************************************************************************)
InitLoad ==
  /\ GenomeOff
  /\ ndebug \in BOOLEAN
  /\ CacheOff
  /\ ThreadsOff
  /\ PrimOff
  /\ InterpOff
  /\ LoadInit
  /\ CatalogOff
  /\ SearchOff

NextLoad ==
  /\ (LoadPopulation \/ LoadProxy \/ LoadLambda)
  /\ UNCHANGED <<genomeVars, ndebug, cacheVars, threadVars, primVars,
                 interpVars, catalogVars,
                 searchVars>>

SpecLoad == InitLoad /\ [][NextLoad]_vars

\* C9: a load that does not succeed returns false and leaves every field of
\* the receiving object as it was before the call.
C9_FailedLoadKeepsObject ==
  [][(lret'.obj # "none" /\ lret'.ret # "true") =>
       /\ lret'.ret = "false"
       /\ pop' = pop
       /\ prx' = prx
       /\ lam' = lam]_vars

(***************************************************************************)
(* individual::pack and individual::unpack.  A number is stored as the     *)
(* bytes of its object representation (narrowed to WordBytes bytes); an    *)
(* opcode is the rank of the symbol in the order of registration.          *)
(***************************************************************************)
ByteValues == 256

WordBytes == 2

WordValues == ByteValues * ByteValues

\* symbol::symbol: opcode_(++opc_count_)
SymbolOrder == <<"X", "Y", "NUM", "ABS", "LN", "ADD", "DIV">>

\* symbol::opcode
opcode(s) == CHOOSE n \in 1..Len(SymbolOrder) : SymbolOrder[n] = s

\* symbol_set::decode(opcode)
decode_opcode(n) == SymbolOrder[n]

\* The object representation of the unsigned number n in w bytes.
RECURSIVE to_bytes(_, _)
to_bytes(n, w) ==
  IF w = 0 THEN <<>> ELSE <<n % ByteValues>> \o to_bytes(n \div ByteValues, w - 1)

\* std::memcpy into an unsigned number.
RECURSIVE from_bytes(_)
from_bytes(b) ==
  IF b = <<>> THEN 0 ELSE Head(b) + ByteValues * from_bytes(Tail(b))

\* The bytes of the int par (two's complement) and the int they hold.
par_bytes(v) == to_bytes(v % WordValues, WordBytes)

par_value(b) ==
  LET u == from_bytes(b)
  IN  IF 2 * u >= WordValues THEN u - WordValues ELSE u

\* individual::pack(p, idx): the bytes appended to p.
RECURSIVE pack(_, _)
RECURSIVE PackArgs(_, _, _)
PackArgs(x, g, i) ==
  IF i > arity(g.sym) THEN <<>>
  ELSE pack(x, g.args[i]) \o PackArgs(x, g, i + 1)

pack(x, idx) ==
  LET g == x.code[idx]
  IN  to_bytes(opcode(g.sym), WordBytes) \o
      (IF parametric(g.sym) THEN par_bytes(g.par) ELSE PackArgs(x, g, 1))

\* _code.push_back(g)
push_back(code, g) ==
  LET n == Cardinality(DOMAIN code)
  IN  [i \in 0..n |-> IF i = n THEN g ELSE code[i]]

RECURSIVE unpack(_, _, _)

\* The argument loop of unpack: argument i of the gene at b0 is the locus
\* the next gene is appended at.
RECURSIVE UnpackArgs(_, _, _, _, _, _)
UnpackArgs(code, packed, idx, unpacked, b0, i) ==
  IF i = arity(code[b0].sym) THEN [code |-> code, unpacked |-> unpacked]
  ELSE LET c1 == [code EXCEPT ![b0].args[i + 1] = Cardinality(DOMAIN code)]
           r == unpack(c1, packed, idx + unpacked)
       IN  UnpackArgs(r.code, packed, idx, unpacked + r.unpacked, b0, i + 1)

\* individual::unpack that does not read the parameter of a parametric
\* terminal.
unpack_no_par(code, packed, idx) ==
  LET sym == decode_opcode(from_bytes(SubSeq(packed, idx + 1,
                                             idx + WordBytes)))
      g == [sym |-> sym, par |-> 0, args |-> [j \in 1..arity(sym) |-> 0]]
      n == IF parametric(sym) THEN 2 * WordBytes ELSE WordBytes
  IN  UnpackArgs(push_back(code, g), packed, idx, n,
                 Cardinality(DOMAIN code), 0)

\* individual::unpack(packed, idx): the genome after the call and the number
\* of bytes read.
unpack(code, packed, idx) ==
  LET sym == decode_opcode(from_bytes(SubSeq(packed, idx + 1,
                                             idx + WordBytes)))
      par == IF parametric(sym)
               THEN par_value(SubSeq(packed, idx + WordBytes + 1,
                                     idx + 2 * WordBytes))
               ELSE 0
      g == [sym |-> sym, par |-> par, args |-> [j \in 1..arity(sym) |-> 0]]
      n == IF parametric(sym) THEN 2 * WordBytes ELSE WordBytes
  IN  UnpackArgs(push_back(code, g), packed, idx, n,
                 Cardinality(DOMAIN code), 0)

\* The individual unpack builds from an empty genome.
unpacked_individual(packed) ==
  [code |-> unpack(<<>>, packed, 0).code, best |-> 0]

\* The hash of a byte stream.
RECURSIVE hash(_)
hash(b) == IF b = <<>> THEN 0 ELSE (Head(b) + 31 * hash(Tail(b))) % WordValues

\* The signature: the hash of the packed active code.
signature(x) == hash(pack(x, x.best))

\* gene::gene: a parametric terminal draws its parameter (symbol::init).
ParVals == {-1, 2}

RECURSIVE WithPars(_, _)
WithPars(code, i) ==
  IF i = Cardinality(DOMAIN code) THEN {code}
  ELSE IF parametric(code[i].sym)
    THEN UNION {WithPars([code EXCEPT ![i].par = v], i + 1) : v \in ParVals}
    ELSE WithPars(code, i + 1)

PackSet == {"X", "NUM", "ABS", "ADD"}

\* pack of ind from its root, then unpack of the stream.
Pack ==
  /\ op = "construct"
  /\ ret' = pack(ind, ind.best)
  /\ off' = unpacked_individual(ret')
  /\ op' = "pack"
  /\ UNCHANGED <<sset, ind, parent>>

(***************************************************************************)
(* SpecPack: random individuals with parametric terminals, packed and      *)
(* unpacked.                                                               *)
(***************************************************************************)
InitPack ==
  /\ sset = PackSet
  /\ \E x \in RandomInds(PackSet) :
       ind \in {[x EXCEPT !.code = c] : c \in WithPars(x.code, 0)}
  /\ parent = NoInd
  /\ off = NoInd
  /\ op = "construct"
  /\ ret = <<>>
  /\ ndebug = FALSE
  /\ CacheOff
  /\ ThreadsOff
  /\ PrimOff
  /\ InterpOff
  /\ LoadOff
  /\ CatalogOff
  /\ SearchOff

NextPack ==
  /\ Pack
  /\ UNCHANGED <<ndebug, cacheVars, threadVars, primVars, interpVars,
                 loadVars,
                 catalogVars,
                 searchVars>>

SpecPack == InitPack /\ [][NextPack]_vars

\* C13: the individual unpacked from the packed active code of an
\* individual has the signature of that individual.
C13_PackRoundTrip ==
  op = "pack" =>
    /\ pack(off, off.best) = ret
    /\ signature(off) = signature(ind)

\* A round trip of an individual whose active code uses a locus twice and
\* holds a negative parameter.
C13_Witness ==
  /\ op = "pack"
  /\ size(off) > eff_size(ind)
  /\ \E l \in DOMAIN off.code : off.code[l].par < 0

(***************************************************************************)
(* SpecEquiv: the Compact test of test.cc on random individuals and on the *)
(* individuals optimize returns: the interpreter runs on an individual and *)
(* on its compacted copy.                                                  *)
(***************************************************************************)
\* v1 = interpreter(i1).run() and v2 = interpreter(i1.compact()).run()
RunCompact ==
  /\ Idle
  /\ check(ind)
  /\ \E inp \in Inputs :
       LET i2 == compact(ind).ind
           r1 == run(ind, inp, ndebug)
           r2 == run(i2, inp, ndebug)
       IN  /\ r1.ok /\ r2.ok
           /\ itp' = r1
           /\ off' = i2
           /\ ret' = <<r2.out>>
  /\ parent' = NoInd
  /\ op' = "run_compact"
  /\ UNCHANGED <<sset, ind>>

InitEquiv ==
  /\ GenomeInit(SmallSet)
  /\ ndebug \in BOOLEAN
  /\ CacheOff
  /\ ThreadsOff
  /\ PrimOff
  /\ InterpOff
  /\ LoadOff
  /\ CatalogOff
  /\ SearchOff

NextEquiv ==
  /\ \/ (Optimize \/ Adopt) /\ UNCHANGED itp
     \/ RunCompact
  /\ UNCHANGED <<ndebug, cacheVars, threadVars, primVars, loadVars,
                 catalogVars,
                 searchVars>>

SpecEquiv == InitEquiv /\ [][NextEquiv]_vars

\* C14: the interpreter output of the compacted copy of a valid individual
\* is the output of the individual: both undefined, or both the same value.
C14_CompactSameOutput ==
  op = "run_compact" => ret[1] = itp.out

(***************************************************************************)
(* Random creation for every code length: the environment is given a code  *)
(* length l and an individual is generated over it.                        *)
(***************************************************************************)
\* environment::debug: the code_length == 1 rule.
env_debug(l) == ~(l = 1)

\* individual::individual(e, true) for e.code_length = l: the codes of the
\* first n loci, locus i drawn by gene(e.sset, i + 1, l).
RECURSIVE CodesOf(_, _, _)
CodesOf(ss, n, l) ==
  IF n = 0 THEN {<<>>}
  ELSE {[i \in 0..(n - 1) |-> IF i = n - 1 THEN g ELSE c[i]] :
          c \in CodesOf(ss, n - 1, l),
          g \in RandomGenes(ss, n, l)}

\* individual::check against an environment whose code_length is l: the
\* walk over the active loci, then the final conjunction with _env->check().
check_at(x, l) ==
  LET al == ActiveLines(x)
  IN  /\ size(x) = l
      /\ \A k \in 1..Len(al) :
           LET g == x.code[al[k]]
           IN  /\ g.sym # ""
               /\ arity(g.sym) <= gene_args
               /\ \A j \in 1..Len(g.args) :
                    ~(g.args[j] >= size(x) \/ g.args[j] <= al[k])
      /\ x.best < size(x)
      /\ terminal(x.code[al[Len(al)]].sym)
      /\ eff_size(x) <= size(x)
      /\ env_debug(l)

\* One turn of the loop of RandomCreation: env.code_length = l, then
\* individual i(env, true), then i.check() and i.size() are read.  The
\* constructor asserts e.check() before and check() after the generation.
RandomCreation ==
  /\ op # "abort"
  /\ \E l \in 1..CodeLength :
       IF ~ndebug /\ ~env_debug(l)
         THEN /\ ind' = NoInd
              /\ op' = "abort"
              /\ ret' = <<l>>
         ELSE \E c \in CodesOf(sset, l, l) :
                LET i == [code |-> c, best |-> 0]
                IN  IF ~ndebug /\ ~check_at(i, l)
                      THEN /\ ind' = NoInd
                           /\ op' = "abort"
                           /\ ret' = <<l>>
                      ELSE /\ ind' = i
                           /\ op' = "created"
                           /\ ret' = <<l, check_at(i, l), size(i)>>
  /\ UNCHANGED <<sset, parent, off>>

InitCreate ==
  /\ sset = FullSet
  /\ ind = NoInd
  /\ parent = NoInd
  /\ off = NoInd
  /\ op = "env"
  /\ ret = <<>>
  /\ ndebug \in BOOLEAN
  /\ CacheOff
  /\ ThreadsOff
  /\ PrimOff
  /\ InterpOff
  /\ LoadOff
  /\ CatalogOff
  /\ SearchOff

NextCreate ==
  /\ RandomCreation
  /\ UNCHANGED <<ndebug, cacheVars, threadVars, primVars, interpVars, loadVars,
                 catalogVars,
                 searchVars>>

SpecCreate == InitCreate /\ [][NextCreate]_vars

\* C15: for every code length l >= 1 the generated individual exists, has
\* size l and passes check().
C15_RandomCreation ==
  op \in {"created", "abort"} =>
    op = "created" /\ ret[2] /\ ret[3] = ret[1]

(***************************************************************************)
(* Mutation with a given probability.  Probabilities are percentages.      *)
(***************************************************************************)
Probabilities == {0, 50, 100}

\* random::boolean(p): the outcomes that have a positive probability.
boolean(p) == {b \in BOOLEAN : (b => p > 0) /\ (~b => p < 100)}

\* individual::mutation stopping one locus before the end of the code.
RECURSIVE mutation_p_short(_, _, _, _)
mutation_p_short(x, ss, i, p) ==
  IF i = 0 THEN {[ind |-> x, n |-> 0, drawn |-> <<>>]}
  ELSE UNION {IF b /\ i < size(x)
                THEN {[ind |-> [r.ind EXCEPT !.code =
                                  [r.ind.code EXCEPT ![i - 1] = g]],
                       n |-> r.n + 1,
                       drawn |-> Append(r.drawn, g)]
                       : g \in RandomGenes(ss, i, size(x))}
                ELSE {[r EXCEPT !.drawn = Append(@, EmptyGene)]}
              : r \in mutation_p_short(x, ss, i - 1, p), b \in boolean(p)}

\* individual::mutation with _env->p_mutation = p, over the loci below i:
\* the receiver after the loop, the count returned, and for every locus the
\* gene that was sampled for it (the empty gene when none was).
RECURSIVE mutation_p(_, _, _, _)
mutation_p(x, ss, i, p) ==
  IF i = 0 THEN {[ind |-> x, n |-> 0, drawn |-> <<>>]}
  ELSE UNION {IF b
                THEN {[ind |-> [r.ind EXCEPT !.code =
                                  [r.ind.code EXCEPT ![i - 1] = g]],
                       n |-> r.n + 1,
                       drawn |-> Append(r.drawn, g)]
                       : g \in RandomGenes(ss, i, size(x))}
                ELSE {[r EXCEPT !.drawn = Append(@, EmptyGene)]}
              : r \in mutation_p(x, ss, i - 1, p), b \in boolean(p)}

\* i_de: a genome of one parametric terminal per category.
DeSet == {"NUM"}

\* gene(sset->roulette_terminal(c)): a terminal of the category with a
\* freshly drawn parameter.
DeGenes == {[sym |-> "NUM", par |-> v, args |-> <<>>] : v \in ParVals}

\* i_de::i_de(e)
DeInds == {[code |-> c, best |-> 0] : c \in [Loci -> DeGenes]}

\* i_de::mutation(p, env) over the categories below c: a sampled gene is
\* stored, and counted, only when it differs from the gene in place.
RECURSIVE de_mutation(_, _, _)
de_mutation(x, c, p) ==
  IF c = 0 THEN {[ind |-> x, n |-> 0, drawn |-> <<>>]}
  ELSE UNION {IF b
                THEN {IF g # r.ind.code[c - 1]
                        THEN [ind |-> [r.ind EXCEPT !.code =
                                         [r.ind.code EXCEPT ![c - 1] = g]],
                              n |-> r.n + 1,
                              drawn |-> Append(r.drawn, g)]
                        ELSE [r EXCEPT !.drawn = Append(@, g)]
                       : g \in DeGenes}
                ELSE {[r EXCEPT !.drawn = Append(@, EmptyGene)]}
              : r \in de_mutation(x, c - 1, p), b \in boolean(p)}

\* orig = i; n = i.mutation() under p_mutation = p.
MutationP ==
  /\ op = "construct"
  /\ sset # DeSet
  /\ \E p \in Probabilities :
       \E r \in mutation_p(ind, sset, size(ind), p) :
         /\ ind' = r.ind
         /\ ret' = <<p, r.n, r.drawn>>
  /\ parent' = ind
  /\ op' = "mutation_p"
  /\ UNCHANGED <<sset, off>>

\* orig = i; n = i.mutation(p, env) for a differential evolution individual.
DeMutation ==
  /\ op = "construct"
  /\ sset = DeSet
  /\ \E p \in Probabilities :
       \E r \in de_mutation(ind, size(ind), p) :
         /\ ind' = r.ind
         /\ ret' = <<p, r.n, r.drawn>>
  /\ parent' = ind
  /\ op' = "mutation_p"
  /\ UNCHANGED <<sset, off>>

InitMut ==
  /\ \/ GenomeInit(SmallSet)
     \/ /\ sset = DeSet
        /\ ind \in DeInds
        /\ parent = NoInd
        /\ off = NoInd
        /\ op = "construct"
        /\ ret = <<>>
  /\ ndebug \in BOOLEAN
  /\ CacheOff
  /\ ThreadsOff
  /\ PrimOff
  /\ InterpOff
  /\ LoadOff
  /\ CatalogOff
  /\ SearchOff

NextMut ==
  /\ MutationP \/ DeMutation
  /\ UNCHANGED <<ndebug, cacheVars, threadVars, primVars, interpVars, loadVars,
                 catalogVars,
                 searchVars>>

SpecMut == InitMut /\ [][NextMut]_vars

\* C16: a mutation with probability 0 changes no locus; a mutation with
\* probability 1 samples a gene for every locus, and every locus differs
\* from its previous gene unless the sampled gene equals the previous one.
C16_MutationBounds ==
  op = "mutation_p" =>
    /\ ret[1] = 0 => ind = parent /\ ret[2] = 0
    /\ ret[1] = 100 =>
         \A i \in DOMAIN ind.code :
           /\ ret[3][i + 1] # EmptyGene
           /\ ind.code[i] = ret[3][i + 1]
           /\ ind.code[i] # parent.code[i] \/ ret[3][i + 1] = parent.code[i]

\* A mutation with probability 1 has changed a locus and has sampled the
\* previous gene for another one.
C16_Witness ==
  /\ op = "mutation_p"
  /\ ret[1] = 100
  /\ \E i \in DOMAIN ind.code : ind.code[i] # parent.code[i]
  /\ \E i \in DOMAIN ind.code : ind.code[i] = parent.code[i]

(***************************************************************************)
(* The symbol set with categories and weights (kernel/symbol_set.cc).      *)
(* A symbol has a name, a category and the categories of its arguments; a  *)
(* weighted symbol pairs it with its weight.                               *)
(***************************************************************************)
Sym(n, c, a) == [name |-> n, category |-> c, args |-> a]

CatalogSymbols ==
  {Sym("T0", 0, <<>>), Sym("T1", 1, <<>>),
   Sym("F01", 0, <<0, 1>>), Sym("F11", 1, <<1>>)}

\* w_symbol::weight as insert computes it from its second argument.
Weights == {0, 1, 2}

\* symbol::terminal for the symbols of the catalog.
is_terminal(s) == Len(s.args) = 0

WeightSum(S) ==
  LET RECURSIVE Sum(_)
      Sum(T) == IF T = {} THEN 0
                ELSE LET x == CHOOSE x \in T : TRUE
                     IN  x.weight + Sum(T \ {x})
  IN  Sum(S)

\* std::sort by descending weight: the orders of S it can leave in elems_
\* (the order of symbols of equal weight is not determined).
RECURSIVE SortedOrders(_)
SortedOrders(S) ==
  IF S = {} THEN {<<>>}
  ELSE UNION {{<<m>> \o r : r \in SortedOrders(S \ {m})}
              : m \in {x \in S : \A y \in S : x.weight >= y.weight}}

\* sum_container after insert has been called for every element of S.
sum_insert(S) ==
  {[elems |-> e, sum |-> WeightSum(S)] : e \in SortedOrders(S)}

MaxCategory(ss) ==
  CHOOSE m \in {ws.sym.category : ws \in ss} :
    \A ws \in ss : ws.sym.category <= m

\* symbol_set::collection for the symbols S.
Collections(S) ==
  {[all |-> a, terminals |-> t] :
     a \in sum_insert(S),
     t \in sum_insert({ws \in S : is_terminal(ws.sym)})}

\* The collections build_view makes for the categories below c.
RECURSIVE CategoryViews(_, _)
CategoryViews(ss, c) ==
  IF c = 0 THEN {<<>>}
  ELSE {Append(v, k) :
          v \in CategoryViews(ss, c - 1),
          k \in Collections({ws \in ss : ws.sym.category = c - 1})}

\* symbol_set::build_view: views_[c] for every category up to the largest
\* one in use, then the collection of all symbols.
build_view(ss) ==
  {Append(v, a) : v \in CategoryViews(ss, MaxCategory(ss) + 1),
                  a \in Collections(ss)}

\* symbol_set::categories
categories(v) == IF Len(v) > 0 THEN Len(v) - 1 ELSE 0

\* The symbols a sum_container holds.
Elems(sc) == {sc.elems[k] : k \in 1..Len(sc.elems)}

\* symbol_set::enough_terminals
enough_terminals(v) ==
  IF Len(v) = 0 THEN TRUE
  ELSE LET need == UNION {{ws.sym.args[k] : k \in 1..Len(ws.sym.args)}
                          : ws \in Elems(v[Len(v)].all)}
       IN  \A i \in need :
             ~(i >= categories(v) \/ Len(v[i + 1].terminals.elems) = 0)

\* The loop of sum_container::roulette: the index the wedge stops at.
RECURSIVE wheel(_, _, _, _)
wheel(elems, i, wedge, slot) ==
  IF wedge <= slot
    THEN wheel(elems, i + 1, wedge + elems[i + 1].weight, slot)
    ELSE i

\* roulette advancing only while the wedge is below the slot.
RECURSIVE wheel_strict(_, _, _, _)
wheel_strict(elems, i, wedge, slot) ==
  IF wedge < slot
    THEN wheel_strict(elems, i + 1, wedge + elems[i + 1].weight, slot)
    ELSE i

roulette_strict(sc, slot) ==
  sc.elems[wheel_strict(sc.elems, 1, sc.elems[1].weight, slot)]

\* sum_container::roulette for the slot random::sup(sum()) returned.
roulette(sc, slot) == sc.elems[wheel(sc.elems, 1, sc.elems[1].weight, slot)]

\* The process has stopped on a failed assertion or on a crash.
Stopped == op \in {"abort", "crash"}

\* symbol_set::insert: the symbol joins symbols_ with its weight and the
\* views are rebuilt.  A symbol is inserted once.
SsetInsert ==
  /\ ~Stopped
  /\ \E s \in CatalogSymbols, w \in Weights :
       /\ \A ws \in sset : ws.sym # s
       /\ sset' = sset \cup {[sym |-> s, weight |-> w]}
  /\ views' \in build_view(sset')
  /\ pick' = NoPick
  /\ op' = "insert"
  /\ UNCHANGED <<ind, parent, off, ret>>

\* symbol_set::roulette(c) called within its contract: c is a category and
\* the weights of the category do not sum to zero.
Roulette ==
  /\ ~Stopped
  /\ \E c \in 0..(categories(views) - 1) :
       LET sc == views[c + 1].all
       IN  /\ sc.sum > 0
           /\ \E slot \in 0..(sc.sum - 1) :
                pick' = [c |-> c, sym |-> roulette(sc, slot)]
  /\ op' = "roulette"
  /\ UNCHANGED <<sset, views, ind, parent, off, ret>>

\* A category of an argument of a registered function holds no terminal.
LacksTerminal(ss) ==
  \E ws \in ss : \E k \in 1..Len(ws.sym.args) :
    ~\E t \in ss : is_terminal(t.sym) /\ t.sym.category = ws.sym.args[k]

\* individual::individual(e, true) over the symbol set: e.check() is
\* asserted before the generation and check() after it.  Without the
\* assertions the genes are drawn from a symbol set that has no terminal
\* for some argument, which reads an empty container.
Construct ==
  /\ ~Stopped
  /\ Len(views) > 0
  /\ IF enough_terminals(views) THEN op' = "created"
     ELSE IF ~ndebug THEN op' = "abort"
     ELSE op' \in {"crash", "created"}
  /\ UNCHANGED <<sset, views, pick, ind, parent, off, ret>>

\* The genes i_de::i_de draws: one terminal per category, by
\* roulette_terminal(c).
DeCodes(v) ==
  {code \in [0..(categories(v) - 1) ->
               {mkgene(ws.sym.name, <<>>) : ws \in Elems(v[Len(v)].terminals)}] :
     \A c \in DOMAIN code :
       \E slot \in 0..(v[c + 1].terminals.sum - 1) :
         code[c].sym = roulette(v[c + 1].terminals, slot).sym.name}

\* i_de::i_de(e): environment::debug does not look at the symbol set;
\* roulette_terminal(c) expects a positive sum of weights in category c,
\* and without the contract checks reads past the container.
ConstructDe ==
  /\ ~Stopped
  /\ Len(views) > 0
  /\ IF \A c \in 0..(categories(views) - 1) : views[c + 1].terminals.sum > 0
       THEN /\ op' = "de_created"
            /\ \E code \in DeCodes(views) : ind' = [code |-> code, best |-> 0]
       ELSE /\ ind' = NoInd
            /\ IF ~ndebug THEN op' = "abort"
               ELSE op' \in {"crash", "de_created"}
  /\ UNCHANGED <<sset, views, pick, parent, off, ret>>

(***************************************************************************)
(* SpecCatalog: symbols are registered, drawn, and individuals are built   *)
(* over the symbol set.                                                     *)
(***************************************************************************)
InitCatalog ==
  /\ GenomeOff
  /\ ndebug \in BOOLEAN
  /\ CacheOff
  /\ ThreadsOff
  /\ PrimOff
  /\ InterpOff
  /\ LoadOff
  /\ CatalogOff
  /\ SearchOff

NextCatalog ==
  /\ SsetInsert \/ Roulette \/ Construct \/ ConstructDe
  /\ UNCHANGED <<ndebug, cacheVars, threadVars, primVars, interpVars,
                 loadVars, searchVars>>

SpecCatalog == InitCatalog /\ [][NextCatalog]_vars

\* C17: a symbol set in which a category of an argument of a registered
\* function holds no terminal fails enough_terminals, and a construction of
\* an individual over it stops at once instead of producing an individual.
C17_BadCatalogRejected ==
  LacksTerminal(sset) =>
    /\ ~enough_terminals(views)
    /\ op \notin {"created", "de_created", "crash"}

\* C18: roulette(c) returns a registered symbol of category c, and the
\* number of slots that select a symbol of the category is its weight.
C18_RouletteWeights ==
  op = "roulette" =>
    LET sc == views[pick.c + 1].all
    IN  /\ pick.sym \in sset
        /\ pick.sym.sym.category = pick.c
        /\ \A ws \in sset :
             Cardinality({s \in 0..(sc.sum - 1) : roulette(sc, s) = ws}) =
               IF ws.sym.category = pick.c THEN ws.weight ELSE 0

\* A draw from a category that holds a symbol of weight 2 and a symbol of
\* weight 1, which selects the lighter one.
C18_Witness ==
  /\ op = "roulette"
  /\ pick.sym.weight = 1
  /\ \E a \in Elems(views[pick.c + 1].all) : a.weight = 2

(***************************************************************************)
(* SpecGen: generalize applied to random individuals, with the individual  *)
(* as it was before the call kept in parent and max_args kept in ret.       *)
(***************************************************************************)
\* orig = i; i.generalize(max_args, &positions, &types).
GeneralizeK ==
  /\ op = "construct"
  /\ \E max_args \in 1..MaxArgs :
       \E r \in generalize(ind, max_args) :
         /\ ind' = r.ind
         /\ ret' = <<max_args, r.positions, r.types>>
  /\ parent' = ind
  /\ op' = "generalize_k"
  /\ UNCHANGED <<sset, off>>

InitGen ==
  /\ GenomeInit(FullSet)
  /\ ndebug \in BOOLEAN
  /\ CacheOff
  /\ ThreadsOff
  /\ PrimOff
  /\ InterpOff
  /\ LoadOff
  /\ CatalogOff
  /\ SearchOff

NextGen ==
  /\ GeneralizeK
  /\ UNCHANGED <<ndebug, cacheVars, threadVars, primVars, interpVars,
                 loadVars, catalogVars,
                 searchVars>>

SpecGen == InitGen /\ [][NextGen]_vars

\* The active terminal loci of x.
TerminalLoci(x) ==
  LET al == ActiveLines(x)
  IN  {al[k] : k \in {k \in 1..Len(al) : terminal(x.code[al[k]].sym)}}

\* C19: generalize(k) rewrites n = min(k, number of active terminal loci)
\* distinct active terminal loci, the j-th with the argument placeholder j,
\* changes no other locus, and reports exactly these loci, in this order.
C19_Generalize ==
  op = "generalize_k" =>
    LET k == ret[1]
        pos == ret[2]
        T == TerminalLoci(parent)
        n == IF k < Cardinality(T) THEN k ELSE Cardinality(T)
    IN  /\ Len(pos) = n
        /\ \A j \in 1..n : pos[j] \in T
        /\ \A i, j \in 1..n : i # j => pos[i] # pos[j]
        /\ \A j \in 1..n :
             ind.code[pos[j]] = [parent.code[pos[j]] EXCEPT !.sym = arg(j - 1)]
        /\ \A l \in DOMAIN ind.code :
             (\A j \in 1..n : pos[j] # l) => ind.code[l] = parent.code[l]
        /\ ind.best = parent.best
        /\ DOMAIN ind.code = DOMAIN parent.code

\* Two terminals rewritten in an order that is not the order of the loci.
C19_Witness ==
  /\ op = "generalize_k"
  /\ Len(ret[2]) = 2
  /\ ret[2][1] > ret[2][2]
  /\ ind.code[ret[2][1]].sym = arg(0)
  /\ ind.code[ret[2][2]].sym = arg(1)

(***************************************************************************)
(* The population over a run: layers are added and reset, individuals are  *)
(* added and removed, and a saved population is loaded.                     *)
(***************************************************************************)
\* environment::layers, the largest number of layers of a run.
MaxLayers == 3

\* i_de::save_impl: the number of genes, then opcode and parameter of each.
RECURSIVE save_impl(_)
save_impl(x) ==
  IF Len(x) = 0 THEN <<0>>
  ELSE LET r == save_impl(SubSeq(x, 1, Len(x) - 1))
       IN  <<Len(x)>> \o Tail(r) \o x[Len(x)]

\* population::save, the loop over the individuals of one layer.
RECURSIVE SaveElems(_)
SaveElems(layer) ==
  IF Len(layer) = 0 THEN <<>>
  ELSE SaveElems(SubSeq(layer, 1, Len(layer) - 1)) \o
       save_impl(layer[Len(layer)])

\* population::save: the number of layers, then every layer as its size
\* and its individuals.
RECURSIVE SaveLayers(_)
SaveLayers(p) ==
  IF Len(p) = 0 THEN <<>>
  ELSE SaveLayers(SubSeq(p, 1, Len(p) - 1)) \o
       <<Len(p[Len(p)])>> \o SaveElems(p[Len(p)])

population_save(p) == <<Len(p)>> \o SaveLayers(p)

\* The layers init_layer can make.
NewLayers == [1..EnvIndividuals -> RandomDe]

\* The populations a stream may have been saved from: one or two layers
\* that hold the same individuals.
SavedPopulations == {[k \in 1..n |-> layer] : n \in 1..2, layer \in NewLayers}

\* population::add_layer putting the new layer in place of the others.
add_layer_alone(p, layer) == <<layer>>

\* population::add_layer: the new layer becomes layer 0.
add_layer(p, layer) == <<layer>> \o p

\* The population has stopped on a failed assertion or on a crash.
PopStopped == lret.ret \in {"abort", "crash"}

AddLayer ==
  /\ ~PopStopped
  /\ Len(pop) < MaxLayers
  /\ Len(pop[1]) > 0
  /\ \E layer \in NewLayers : pop' = add_layer(pop, layer)
  /\ lret' = [obj |-> "add_layer", ret |-> "done"]
  /\ UNCHANGED <<stream, prx, lam>>

\* population::init_layer(l) on a layer that holds an individual.
InitLayer ==
  /\ ~PopStopped
  /\ \E l \in 1..Len(pop) :
       /\ Len(pop[l]) > 0
       /\ \E layer \in NewLayers : pop' = [pop EXCEPT ![l] = layer]
  /\ lret' = [obj |-> "layer", ret |-> "done"]
  /\ UNCHANGED <<stream, prx, lam>>

\* population::add_to_layer(l, i) on a layer that is not full.
AddToLayer ==
  /\ ~PopStopped
  /\ \E l \in 1..Len(pop) :
       /\ Len(pop[l]) < EnvIndividuals
       /\ \E i \in RandomDe : pop' = [pop EXCEPT ![l] = Append(@, i)]
  /\ lret' = [obj |-> "layer", ret |-> "done"]
  /\ UNCHANGED <<stream, prx, lam>>

\* population::pop_from_layer(l) on a layer that holds an individual.
PopFromLayer ==
  /\ ~PopStopped
  /\ \E l \in 1..Len(pop) :
       /\ Len(pop[l]) > 0
       /\ pop' = [pop EXCEPT ![l] = SubSeq(@, 1, Len(@) - 1)]
  /\ lret' = [obj |-> "layer", ret |-> "done"]
  /\ UNCHANGED <<stream, prx, lam>>

\* population::load from a stream that population::save has written.
PopLoad ==
  /\ ~PopStopped
  /\ Len(pop[1]) > 0
  /\ \E p \in SavedPopulations :
       \E r \in population_load(pop, population_save(p), ndebug) :
         /\ pop' = r.pop
         /\ lret' = [obj |-> "population", ret |-> r.ret]
  /\ UNCHANGED <<stream, prx, lam>>

InitPop ==
  /\ GenomeOff
  /\ ndebug \in BOOLEAN
  /\ CacheOff
  /\ ThreadsOff
  /\ PrimOff
  /\ InterpOff
  /\ CatalogOff
  /\ SearchOff
  /\ stream = <<>>
  /\ pop \in NewPopulation
  /\ prx = OldProxy
  /\ lam = OldLambda
  /\ lret = NoLoad

NextPop ==
  /\ AddLayer \/ InitLayer \/ AddToLayer \/ PopFromLayer \/ PopLoad
  /\ UNCHANGED <<genomeVars, ndebug, cacheVars, threadVars, primVars,
                 interpVars, catalogVars,
                 searchVars>>

SpecPop == InitPop /\ [][NextPop]_vars

NTraining == 2

\* Runs of one search (the argument n of run_nvi).
NRuns == 2

\* Calls of dss in one run of the evolution.
MaxShakes == 1

TrainingSet == 1..NTraining

\* The examples data::partition moved to the validation set.
ValidationSet == {0}

\* data::dataset() with data::slice(): the examples an evaluation visits.
Examples(a) == IF a.dataset = "validation" THEN ValidationSet ELSE a.slice

\* The fitness the wrapped evaluator computes for the program of signature
\* h on the example set e.
EvaOn(h, e) == <<h, e>>

\* cache::clear(const hash_t &): the slot of h holds no entry any more.
clear_hash(c, h) == [c EXCEPT !.table = [c.table EXCEPT ![index(h)] = EmptySlot]]

\* search::fitness: one call of the active evaluator (the proxy) on the
\* active example set.  cache: the cache after the call; out: the fitness
\* returned, with the example set that was active.
fitness(c, h, a) ==
  LET r == proxy_call(c, [sig |-> h, fit |-> EvaOn(h, Examples(a))], TRUE)
  IN  [cache |-> r.cache,
       out |-> [sig |-> h, f |-> r.f, on |-> Examples(a)]]

\* search::set_parameters chooses validation, dss and arl; the constructor
\* of the proxy leaves the cache empty.
SearchInit ==
  /\ active = [dataset |-> "training", slice |-> TrainingSet]
  /\ ttab = NewCache
  /\ \E v \in BOOLEAN, d \in BOOLEAN, a \in BOOLEAN :
       sch = [pc |-> "start", r |-> 0, shakes |-> 0, validation |-> v,
              dss |-> d, arl |-> a, out |-> <<>>]

\* search::dss: the training set is re-sliced to the selected examples and
\* the whole cache is cleared.
Shake ==
  /\ sch.dss
  /\ sch.pc \in {"start", "generation"}
  /\ sch.shakes < MaxShakes
  /\ \E s \in (SUBSET TrainingSet) \ {{}} :
       active' = [dataset |-> "training", slice |-> s]
  /\ ttab' = clear(ttab)
  /\ sch' = [sch EXCEPT !.pc = "generation", !.shakes = @ + 1, !.out = <<>>]

\* The evolution evaluates one individual of the population.
EvaluateInd ==
  /\ sch.pc = "generation" \/ (sch.pc = "start" /\ ~sch.dss)
  /\ ttab.probes < MaxProbes
  /\ \E h \in Sigs :
       LET r == fitness(ttab, h, active)
       IN  /\ ttab' = r.cache
           /\ sch' = [sch EXCEPT !.pc = "generation", !.out = <<r.out>>]
  /\ UNCHANGED active

\* run_nvi after evo.run(r): the fitness of the best individual of the run
\* is measured on the validation set, or on the whole training set when
\* dss is on, or taken from the summary.
Measure ==
  /\ sch.pc = "generation"
  /\ \E best \in Sigs :
       IF sch.validation
         THEN LET v == [active EXCEPT !.dataset = "validation"]
                  r == fitness(clear_hash(ttab, best), best, v)
              IN  /\ ttab' = clear_hash(r.cache, best)
                  /\ active' = active
                  /\ sch' = [sch EXCEPT !.pc = "measured", !.out = <<r.out>>]
         ELSE IF sch.dss
           THEN LET t == [dataset |-> "training", slice |-> TrainingSet]
                    r == fitness(clear_hash(ttab, best), best, t)
                IN  /\ ttab' = r.cache
                    /\ active' = t
                    /\ sch' = [sch EXCEPT !.pc = "measured",
                                          !.out = <<r.out>>]
           ELSE /\ UNCHANGED <<ttab, active>>
                /\ sch' = [sch EXCEPT !.pc = "measured", !.out = <<>>]

\* search::arl on the best individual of a successful run: the fitness of
\* the individual and of the individual without one of its blocks.
Arl ==
  /\ sch.pc = "measured"
  /\ sch.arl
  /\ \E ind0 \in Sigs, destroyed \in Sigs :
       LET r1 == fitness(ttab, ind0, active)
           r2 == fitness(r1.cache, destroyed, active)
       IN  /\ ttab' = r2.cache
           /\ sch' = [sch EXCEPT !.pc = "arl", !.out = <<r1.out, r2.out>>]
  /\ UNCHANGED active

\* The loop of run_nvi starts the next run on the same evaluator.
NextRun ==
  /\ sch.pc \in {"measured", "arl"}
  /\ sch.r + 1 < NRuns
  /\ sch' = [sch EXCEPT !.pc = "start", !.r = @ + 1, !.shakes = 0,
                        !.out = <<>>]
  /\ UNCHANGED <<active, ttab>>

InitSearch ==
  /\ GenomeOff
  /\ ndebug = TRUE
  /\ CacheOff
  /\ ThreadsOff
  /\ PrimOff
  /\ InterpOff
  /\ LoadOff
  /\ CatalogOff
  /\ SearchInit
  /\ runs = <<>>
  /\ exs = <<>>

NextSearch ==
  /\ Shake \/ EvaluateInd \/ Measure \/ Arl \/ NextRun
  /\ UNCHANGED <<genomeVars, ndebug, cacheVars, threadVars, primVars,
                 interpVars, loadVars, catalogVars, runs, exs>>

SpecSearch == InitSearch /\ [][NextSearch]_vars

\* C21: every fitness the active evaluator returns was computed on the
\* example set that is active when it is returned: no fitness computed on
\* an earlier example set is served from the cache.
C21_FitnessOnActiveSet ==
  sch # <<>> =>
    \A i \in 1..Len(sch.out) :
      sch.out[i].f = EvaOn(sch.out[i].sig, sch.out[i].on)

(***************************************************************************)
(* The value returned by mutation against the loci that changed.           *)
(***************************************************************************)
\* The loci at which the individual x differs from the individual y.
ChangedLoci(x, y) == {i \in DOMAIN x.code : x.code[i] # y.code[i]}

\* C23: the value returned by mutation is the number of loci whose gene
\* after the call differs from the gene at the same locus before the call.
C23_MutationCount ==
  op = "mutation_p" => ret[2] = Cardinality(ChangedLoci(ind, parent))

(***************************************************************************)
(* The cached signature of a differential evolution individual             *)
(* (kernel/ga/i_de).  The individual is its genome_, a sequence of genes    *)
(* <<opcode, parameter>>, and its signature_, empty or holding a hash.      *)
(***************************************************************************)
\* hash_t::clear / hash_t::empty
NoSignature == <<>>

\* The values a parameter is drawn from.
SigPars == 0..MaxTok

\* The terminal of category c carries opcode c.
SigCategories == MaxOpcode + 1

\* i_de::i_de(e): one gene per category, no signature yet.
RECURSIVE SigGenomes(_)
SigGenomes(n) ==
  IF n = 0 THEN {<<>>}
  ELSE {Append(g, <<n - 1, v>>) : g \in SigGenomes(n - 1), v \in SigPars}

\* i_de::pack: opcode and parameter of every gene, as 16 bit values.
RECURSIVE de_pack(_)
de_pack(g) ==
  IF g = <<>> THEN <<>>
  ELSE to_bytes(Head(g)[1], WordBytes) \o par_bytes(Head(g)[2]) \o
       de_pack(Tail(g))

\* i_de::hash
de_hash(g) == hash(de_pack(g))

\* i_de::signature: computes and stores the hash when none is stored.
de_signature(x) ==
  IF x.signature_ = NoSignature
    THEN [x EXCEPT !.signature_ = <<de_hash(x.genome_)>>]
    ELSE x

\* The non-const operator[] that hands out the element and keeps the stored
\* signature.
subscript_keep(x, i, v) == [x EXCEPT !.genome_[i][2] = v]

\* x[i] = v through the non-const operator[]: the signature is cleared and
\* the element behind the returned reference is written.
subscript(x, i, v) ==
  [x EXCEPT !.genome_[i][2] = v, !.signature_ = NoSignature]

\* i_de::operator=(const std::vector<double> &): operator[](i) = v[i] for
\* every i from i on.
RECURSIVE assign(_, _, _)
assign(x, v, i) ==
  IF i > Len(x.genome_) THEN x ELSE assign(subscript(x, i, v[i]), v, i + 1)

\* The loop of i_de::mutation over the categories up to c: the genomes it
\* can leave, each with the count n of the changed genes.
RECURSIVE SigMutationLoop(_, _, _)
SigMutationLoop(g, c, p) ==
  IF c = 0 THEN {[genome_ |-> g, n |-> 0]}
  ELSE UNION {IF b
                THEN {IF <<c - 1, v>> # r.genome_[c]
                        THEN [genome_ |-> [r.genome_ EXCEPT ![c] = <<c - 1, v>>],
                              n |-> r.n + 1]
                        ELSE r : v \in SigPars}
                ELSE {r}
              : r \in SigMutationLoop(g, c - 1, p), b \in boolean(p)}

\* i_de::mutation: the signature is recomputed when a gene changed.
sig_mutation(x, p) ==
  {[ind |-> [genome_ |-> r.genome_,
             signature_ |-> IF r.n > 0 THEN <<de_hash(r.genome_)>>
                            ELSE x.signature_],
     n |-> r.n] : r \in SigMutationLoop(x.genome_, Len(x.genome_), p)}

\* The weighting factors random::between(f[0], f[1]) gives.
Dither == {0, 1}

\* The loop of i_de::crossover on the copy t of the base vector, from
\* position i on: the last position always takes the mutant value.
RECURSIVE CrossLoop(_, _, _, _, _, _, _)
CrossLoop(t, x, a, b, rf, p, i) ==
  LET ps == Len(x.genome_)
      mut == subscript(t, i, t.genome_[i][2] +
                             rf * (a.genome_[i][2] - b.genome_[i][2]))
  IN  IF i = ps THEN {mut}
      ELSE UNION {CrossLoop(IF bl THEN mut
                            ELSE subscript(t, i, x.genome_[i][2]),
                            x, a, b, rf, p, i + 1) : bl \in boolean(p)}

\* i_de::crossover
de_crossover(x, a, b, c, rf, p) ==
  {[t EXCEPT !.signature_ = NoSignature] : t \in CrossLoop(c, x, a, b, rf, p, 1)}

\* The streams a load is given: a saved genome, whole or cut short.
SigStreams ==
  UNION {{SubSeq(save_impl(g), 1, k) : k \in 0..Len(save_impl(g))} :
           g \in UNION {SigGenomes(n) : n \in 0..SigCategories}}

\* individual::load: a successful load_impl replaces the genome and the
\* signature is cleared; a failed one changes nothing.
individual_load(x, s) ==
  LET r == load_impl(x.genome_, s, 1)
  IN  IF r.ok THEN [ok |-> TRUE,
                    ind |-> [genome_ |-> r.ind, signature_ |-> NoSignature]]
      ELSE [ok |-> FALSE, ind |-> x]

\* The individuals whose parameters count is that of the environment.
FullSize(x) == Len(x.genome_) = SigCategories

\* The individual as constructed, with or without a stored signature.
Fresh == op \in {"construct", "signature"}

\* h = x.signature()
Signature ==
  /\ op = "construct"
  /\ ind' = de_signature(ind)
  /\ ret' = <<ind.signature_, ind.genome_>>
  /\ op' = "signature"
  /\ UNCHANGED off

\* x.mutation(p, env)
SigMutation ==
  /\ Fresh
  /\ \E p \in Probabilities :
       \E r \in sig_mutation(ind, p) : ind' = r.ind
  /\ ret' = <<ind.signature_, ind.genome_>>
  /\ op' = "mutation"
  /\ UNCHANGED off

\* x[i] = v
Subscript ==
  /\ Fresh
  /\ \E i \in 1..Len(ind.genome_), v \in SigPars :
       ind' = subscript(ind, i, v)
  /\ ret' = <<ind.signature_, ind.genome_>>
  /\ op' = "subscript"
  /\ UNCHANGED off

\* x = v for a vector v of parameters() values
AssignVector ==
  /\ Fresh
  /\ \E v \in [1..Len(ind.genome_) -> SigPars] :
       ind' = assign(ind, v, 1)
  /\ ret' = <<ind.signature_, ind.genome_>>
  /\ op' = "assign"
  /\ UNCHANGED off

\* off = x.crossover(p, f, a, x, a): the first parent, also the base
\* vector, is a random individual with its signature computed.
Crossover ==
  /\ Fresh
  /\ FullSize(ind)
  /\ \E ga \in SigGenomes(SigCategories), rf \in Dither,
        p \in Probabilities :
       LET a == de_signature([genome_ |-> ga, signature_ |-> NoSignature])
           b == ind
           c == a
       IN  off' \in de_crossover(ind, a, b, c, rf, p)
  /\ ret' = <<ind.signature_, ind.genome_>>
  /\ op' = "crossover"
  /\ UNCHANGED ind

\* x.load(in)
LoadInd ==
  /\ Fresh
  /\ \E s \in SigStreams :
       LET r == individual_load(ind, s)
       IN  /\ ind' = r.ind
           /\ op' = IF r.ok THEN "load" ELSE "load_failed"
  /\ ret' = <<ind.signature_, ind.genome_>>
  /\ UNCHANGED off

InitSig ==
  /\ sset = {}
  /\ \E g \in SigGenomes(SigCategories) :
       ind = [genome_ |-> g, signature_ |-> NoSignature]
  /\ parent = NoInd
  /\ off = NoInd
  /\ op = "construct"
  /\ ret = <<>>
  /\ ndebug = TRUE
  /\ CacheOff
  /\ ThreadsOff
  /\ PrimOff
  /\ InterpOff
  /\ LoadOff
  /\ CatalogOff
  /\ SearchOff

NextSig ==
  /\ \/ Signature
     \/ SigMutation
     \/ Subscript
     \/ AssignVector
     \/ Crossover
     \/ LoadInd
  /\ UNCHANGED <<sset, parent, ndebug, cacheVars, threadVars, primVars,
                 interpVars, loadVars, catalogVars, searchVars>>

SpecSig == InitSig /\ [][NextSig]_vars

\* A stored signature is the hash of the genome it is stored with.
SignatureCurrent(x) ==
  x.signature_ = NoSignature \/ x.signature_ = <<de_hash(x.genome_)>>

MaxUses == 3

\* The loci of the caller an argument of the ADF gene may name.
ArgLoci == 1..(CodeLength - 1)

\* The values a gene of the caller evaluates to: a number or an empty
\* boost::any.
AdfValues == {Empty, Num(0), Num(1)}

\* A slot of interpreter::_cache.
NoMemo == [empty |-> TRUE, value |-> Empty]

\* _context->eval(i) for the argument at locus l of the caller c
\* (interpreter::eval(unsigned)): asked counts the calls, evals the
\* evaluations of the gene at l.
context_eval(c, l, nd) ==
  IF c.cache[l].empty
    THEN [c EXCEPT !.cache[l] = [empty |-> FALSE, value |-> c.val[l]],
                   !.evals[l] = @ + 1, !.asked[l] = @ + 1]
    ELSE IF nd THEN [c EXCEPT !.asked[l] = @ + 1]
    ELSE [c EXCEPT !.evals[l] = @ + 1, !.asked[l] = @ + 1]

\* interpreter::eval_adf_arg(i) of the body interpreter s: the context
\* cache is filled from the caller when its entry is an empty boost::any.
eval_adf_arg(s, i, nd) ==
  LET l == s.args[i]
  IN  IF empty(s.context_cache[l])
        THEN LET c == context_eval(s.caller, l, nd)
                 v == c.cache[l].value
             IN  [s EXCEPT !.caller = c, !.context_cache[l] = v,
                           !.out = Append(@, v)]
        ELSE [s EXCEPT !.out = Append(@, s.context_cache[l])]

\* The body of the subroutine uses its parameters in the order u.
RECURSIVE AdfBody(_, _, _)
AdfBody(s, u, nd) ==
  IF u = <<>> THEN s ELSE AdfBody(eval_adf_arg(s, Head(u), nd), Tail(u), nd)

\* The orders in which a body of n parameters can use them.
Uses(n) == UNION {[1..k -> 1..n] : k \in 1..MaxUses}

\* The caller when it reaches the ADF gene: the value of the gene at every
\* argument locus, and its memo, which already holds the loci an earlier
\* gene asked for.
Callers ==
  {[val |-> v,
    cache |-> [l \in ArgLoci |-> IF l \in done
                                   THEN [empty |-> FALSE, value |-> v[l]]
                                   ELSE NoMemo],
    evals |-> [l \in ArgLoci |-> 0],
    asked |-> [l \in ArgLoci |-> 0]] :
   v \in [ArgLoci -> AdfValues], done \in SUBSET ArgLoci}

\* The state before adf::eval builds the interpreter of the body.
NoCall(c) == [ran |-> FALSE, caller |-> c, args |-> <<>>, uses |-> <<>>,
              out |-> <<>>, context_cache |-> <<>>]

\* adf::eval: interpreter(code, ctx).run() clears the context cache, then
\* the body runs.
AdfCall ==
  /\ ~itp.ran
  /\ \E n \in 1..MaxArgs :
       \E a \in [1..n -> ArgLoci], u \in Uses(n) :
         itp' = AdfBody([itp EXCEPT !.ran = TRUE, !.args = a, !.uses = u,
                                    !.context_cache =
                                      [l \in ArgLoci |-> Empty]],
                        u, ndebug)

InitAdf ==
  /\ GenomeOff
  /\ ndebug \in BOOLEAN
  /\ CacheOff
  /\ ThreadsOff
  /\ PrimOff
  /\ \E c \in Callers : itp = NoCall(c)
  /\ LoadOff
  /\ CatalogOff
  /\ SearchOff

NextAdf ==
  /\ AdfCall
  /\ UNCHANGED <<genomeVars, ndebug, cacheVars, threadVars, primVars,
                 loadVars, catalogVars, searchVars>>

SpecAdf == InitAdf /\ [][NextAdf]_vars

\* C24: during one call of an auto-defined function the caller is asked
\* for each actual argument at most once, and every use of a parameter
\* returns the value of the argument.
C24_ArgumentAskedOnce ==
  itp.ran =>
    /\ \A l \in ArgLoci : itp.caller.asked[l] <= 1
    /\ \A k \in 1..Len(itp.uses) :
         itp.out[k] = itp.caller.val[itp.args[itp.uses[k]]]

(***************************************************************************)
(* Dynamic subset selection (src_search::dss) on the training examples.    *)
(* The data source is the sequence of its training examples, each with an  *)
(* identity, a difficulty and an age, and the size of the active slice.    *)
(***************************************************************************)
\* Training examples of the data source.
NExamples == 3

\* The least size of the slice dss asks for (std::max(count, 10u)),
\* narrowed.
MinSlice == 2

\* Calls of dss in one evolution.
MaxGenerations == 2

\* Largest difficulty an evaluation gives an example.
MaxDifficulty == 1

\* data::example as the data source builds it.
NewExamples == [i \in 1..NExamples |-> [id |-> i, difficulty |-> 0, age |-> 0]]

\* data::slice(n): the first n examples are active; all of them for n = 0
\* and for an n beyond the size.
slice(d, n) == IF n = 0 \/ n >= Len(d) THEN Len(d) ELSE n

\* The lambda weight of dss.
weight(v) == v.difficulty + v.age * v.age * v.age

RECURSIVE weight_sum(_)
weight_sum(d) ==
  IF d = <<>> THEN 0 ELSE weight(Head(d)) + weight_sum(Tail(d))

\* The first loop of dss with the ages left as they are.
aged_keep(d, generation) ==
  [i \in 1..Len(d) |->
     IF generation = 0 THEN [d[i] EXCEPT !.difficulty = 0, !.age = 1]
     ELSE d[i]]

\* The first loop of dss: at generation 0 difficulty and age are set up,
\* later every age grows by one.
aged(d, generation) ==
  [i \in 1..Len(d) |->
     IF generation = 0 THEN [d[i] EXCEPT !.difficulty = 0, !.age = 1]
     ELSE [d[i] EXCEPT !.age = @ + 1]]

\* random::boolean(prob) for prob = min(weight * target_size / weight_sum,
\* 1) with target_size = 0.6 * size (the ratio of every data source of at
\* most 150 examples): the outcomes that have a positive probability.
selected(v, d) ==
  {b \in BOOLEAN : (b => weight(v) > 0) /\
                   (~b => 3 * Len(d) * weight(v) < 5 * weight_sum(d))}

\* std::iter_swap(base, i)
iter_swap(d, i, j) == [d EXCEPT ![i] = d[j], ![j] = d[i]]

\* The selection loop of dss from position i on, with base examples
\* already selected: the partitions it can leave, each with its count.
RECURSIVE Partition(_, _, _, _)
Partition(d, w, i, count) ==
  IF i > Len(d) THEN {[data |-> d, count |-> count]}
  ELSE UNION {IF b THEN Partition(iter_swap(d, count + 1, i), w, i + 1,
                                  count + 1)
                   ELSE Partition(d, w, i + 1, count)
              : b \in selected(d[i], w)}

\* The last loop of dss: the examples of the slice are reset.
reset(d, n) ==
  [i \in 1..Len(d) |->
     IF i <= n THEN [d[i] EXCEPT !.difficulty = 0, !.age = 1] ELSE d[i]]

\* src_search::dss(generation) on the examples d: the data sources it can
\* leave, with the identities of the examples the loop selected.
dss(d, generation) ==
  LET a == aged(d, generation)
  IN  {LET n == slice(p.data, IF p.count > MinSlice THEN p.count
                              ELSE MinSlice)
       IN  [data |-> reset(p.data, n), slice |-> n,
            sel |-> {p.data[i].id : i \in 1..p.count}]
       : p \in Partition(a, a, 1, 0)}

\* The data source before the first call of dss.
DssInit ==
  exs = [data |-> NewExamples, slice |-> NExamples, sel |-> {},
         generation |-> 0, calls |-> 0]

\* The evolution calls dss(generation) for the generations in turn.
Dss ==
  /\ exs.calls < MaxGenerations
  /\ \E r \in dss(exs.data, exs.calls) :
       exs' = [data |-> r.data, slice |-> r.slice, sel |-> r.sel,
               generation |-> exs.calls, calls |-> exs.calls + 1]

\* An evaluation raises the difficulty of an example of the slice that the
\* program gets wrong.
Misclassify ==
  /\ exs.calls > 0
  /\ \E i \in 1..exs.slice :
       /\ exs.data[i].difficulty < MaxDifficulty
       /\ exs' = [exs EXCEPT !.data[i].difficulty = @ + 1]

InitDss ==
  /\ GenomeOff
  /\ ndebug = TRUE
  /\ CacheOff
  /\ ThreadsOff
  /\ PrimOff
  /\ InterpOff
  /\ LoadOff
  /\ CatalogOff
  /\ active = {}
  /\ ttab = <<>>
  /\ sch = <<>>
  /\ runs = <<>>
  /\ DssInit

NextDss ==
  /\ Dss \/ Misclassify
  /\ UNCHANGED <<genomeVars, ndebug, cacheVars, threadVars, primVars,
                 interpVars, loadVars, catalogVars, active, ttab, sch, runs>>

SpecDss == InitDss /\ [][NextDss]_vars

\* The example of identity id in the sequence d.
ExampleOf(d, id) == d[CHOOSE i \in 1..Len(d) : d[i].id = id]

\* C25 as stated: after dss every example the selection picked has
\* difficulty 0 and age 1 and, for a generation above 0, every example it
\* did not pick is one generation older than before the call.
C25_SelectedReset ==
  [][exs' # exs /\ exs'.calls > exs.calls =>
       \A id \in 1..NExamples :
         LET e == ExampleOf(exs'.data, id)
         IN  /\ id \in exs'.sel => e.difficulty = 0 /\ e.age = 1
             /\ exs'.generation > 0 /\ id \notin exs'.sel =>
                  e.age = ExampleOf(exs.data, id).age + 1]_vars

\* C25 amended: after dss every example of the active slice (the picked
\* examples, then unpicked ones while the slice is shorter than MinSlice)
\* has difficulty 0 and age 1; for a generation above 0 every example
\* outside the slice keeps its difficulty and is one generation older.
C25_SliceReset ==
  [][exs' # exs /\ exs'.calls > exs.calls =>
       /\ exs'.sel \subseteq {exs'.data[i].id : i \in 1..exs'.slice}
       /\ \A i \in 1..NExamples :
            LET e == exs'.data[i]
                o == ExampleOf(exs.data, e.id)
            IN  /\ i <= exs'.slice => e.difficulty = 0 /\ e.age = 1
                /\ exs'.generation > 0 /\ i > exs'.slice =>
                     e.age = o.age + 1 /\ e.difficulty = o.difficulty]_vars

\* A call of dss at a generation above 0 picked one example, filled the
\* slice with an unpicked one and left an example with a difficulty
\* outside.
C25_Witness ==
  /\ exs # <<>>
  /\ exs.generation > 0
  /\ exs.calls = exs.generation + 1
  /\ Cardinality(exs.sel) < exs.slice
  /\ exs.sel # {}
  /\ \E i \in (exs.slice + 1)..NExamples :
       exs.data[i].difficulty > 0 /\ exs.data[i].age > 1

(***************************************************************************)
(* The integer primitives ADD, SUB and MUL on every pair of int operands.  *)
(* base_t is int, here the integers IntMin..IntMax.  The overflow of a     *)
(* signed int operation is undefined: the build wraps the result or traps. *)
(***************************************************************************)
\* The process stopped by a trapping overflow.
Trap == [k |-> "trap", v |-> 0]

\* The int a wrapping build computes for the exact result n.
wrap(n) == ((n - IntMin) % (IntMax - IntMin + 1)) + IntMin

\* An int operation of exact result n.
int_op(n) ==
  IF n >= IntMin /\ n <= IntMax THEN {Num(n)} ELSE {Num(wrap(n)), Trap}

\* integer::sub::eval
integer_sub(a0, a1) ==
  LET v0 == a0.v
      v1 == a1.v
  IN  IF v0 < 0 /\ v1 > 0 /\ v0 < IntMin + v1 THEN {Num(IntMin)}
      ELSE IF v0 > 0 /\ v1 < 0 /\ v0 > IntMax + v1 THEN {Num(IntMax)}
      ELSE int_op(v0 - v1)

\* integer::mul::eval: the product of the two int operands is computed in
\* int and then widened to long long for the range tests.
integer_mul(a0, a1) ==
  {IF tmp = Trap THEN Trap
   ELSE IF tmp.v > IntMax THEN Num(IntMax)
   ELSE IF tmp.v < IntMin THEN Num(IntMin)
   ELSE tmp : tmp \in int_op(a0.v * a1.v)}

SatPrims == {"integer::add", "integer::sub", "integer::mul"}

\* symbol::eval of the three primitives: the results the build can give.
int_eval(name, a) ==
  CASE name = "integer::add" -> {integer_add(a[1], a[2])}
    [] name = "integer::sub" -> integer_sub(a[1], a[2])
    [] name = "integer::mul" -> integer_mul(a[1], a[2])

\* The primitive is evaluated on the values of its arguments.
ApplyInt ==
  /\ pres = Pending
  /\ pres' \in int_eval(pname, pargs)
  /\ UNCHANGED <<pname, pargs>>

InitInt ==
  /\ GenomeOff
  /\ ndebug = FALSE
  /\ CacheOff
  /\ ThreadsOff
  /\ pname \in SatPrims
  /\ pargs \in [1..2 -> IntVals]
  /\ pres = Pending
  /\ InterpOff
  /\ LoadOff
  /\ CatalogOff
  /\ SearchOff

NextInt ==
  /\ ApplyInt
  /\ UNCHANGED <<genomeVars, ndebug, cacheVars, threadVars, interpVars,
                 loadVars, catalogVars, searchVars>>

SpecInt == InitInt /\ [][NextInt]_vars

\* The mathematical result of the primitive.
IntExact(name, a) ==
  CASE name = "integer::add" -> a[1].v + a[2].v
    [] name = "integer::sub" -> a[1].v - a[2].v
    [] name = "integer::mul" -> a[1].v * a[2].v

\* The int nearest to n.
Saturated(n) == IF n > IntMax THEN IntMax ELSE IF n < IntMin THEN IntMin ELSE n

\* C26: integer ADD, SUB and MUL return the exact result when it is an int
\* and the bound of int on its side otherwise, and no step overflows.
C26_Saturating ==
  (pname \in SatPrims /\ pres # Pending) =>
    pres = Num(Saturated(IntExact(pname, pargs)))

(***************************************************************************)
(* symbol_set::scale_adf_weights on a symbol set that holds auto-defined   *)
(* symbols.                                                                *)
(***************************************************************************)
\* Largest weight a symbol is registered with.
MaxWeight == 3

\* A plain terminal, an auto-defined terminal and an auto-defined function.
ScaleSymbols ==
  {[name |-> "T", category |-> 0, args |-> <<>>, auto_defined |-> FALSE],
   [name |-> "ADT", category |-> 0, args |-> <<>>, auto_defined |-> TRUE],
   [name |-> "ADF", category |-> 0, args |-> <<0>>, auto_defined |-> TRUE]}

\* views_.back().adt and views_.back().adf
adt(v) ==
  {ws \in Elems(v[Len(v)].all) : ws.sym.auto_defined /\ is_terminal(ws.sym)}

adf(v) ==
  {ws \in Elems(v[Len(v)].all) : ws.sym.auto_defined /\ ~is_terminal(ws.sym)}

\* A scale that divides the weight by two.
scale_div(w) == w \div 2

\* The lambda scale of scale_adf_weights: the weight left to a symbol of
\* weight w.
scale(w) == w - (IF w > 1 THEN w \div 2 ELSE w)

\* symbol_set::scale_adf_weights: the weights_ it leaves for the views v.
scale_adf_weights(ss, v) ==
  {IF \E x \in adt(v) \cup adf(v) : x.sym = ws.sym
     THEN [ws EXCEPT !.weight =
             scale((CHOOSE x \in adt(v) \cup adf(v) : x.sym = ws.sym).weight)]
     ELSE ws : ws \in ss}

\* sset.scale_adf_weights(), with the build_view() that ends it.
ScaleAdfWeights ==
  /\ sset' = scale_adf_weights(sset, views)
  /\ views' \in build_view(sset')
  /\ ret' = sset
  /\ op' = "scale"
  /\ UNCHANGED <<ind, parent, off, pick>>

InitScale ==
  /\ \E w \in [ScaleSymbols -> 0..MaxWeight] :
       sset = {[sym |-> s, weight |-> w[s]] : s \in ScaleSymbols}
  /\ views \in build_view(sset)
  /\ pick = NoPick
  /\ ind = NoInd
  /\ parent = NoInd
  /\ off = NoInd
  /\ op = "insert"
  /\ ret = <<>>
  /\ ndebug = TRUE
  /\ CacheOff
  /\ ThreadsOff
  /\ PrimOff
  /\ InterpOff
  /\ LoadOff
  /\ SearchOff

NextScale ==
  /\ ScaleAdfWeights
  /\ UNCHANGED <<ndebug, cacheVars, threadVars, primVars, interpVars,
                 loadVars, searchVars>>

SpecScale == InitScale /\ [][NextScale]_vars

\* The weight of the symbol s in the weighted symbols ss.
WeightOf(ss, s) == (CHOOSE ws \in ss : ws.sym = s).weight

Accuracies == 0..1

\* The elements of the list l.
Range(l) == {l[i] : i \in 1..Len(l)}

\* good_runs.front(): the first element; on an empty list the behaviour is
\* undefined, the process crashes or some value is read.
front(l) ==
  IF Len(l) > 0 THEN {[st |-> "read", v |-> l[1]]}
  ELSE {[st |-> "crash", v |-> 0]} \cup
       {[st |-> "undefined", v |-> v] : v \in 0..(NRuns - 1)}

\* The state of run_nvi before the first run; the environment fixes the
\* thresholds and arl.
RunsInit ==
  \E f \in 1..MaxFit, a \in Accuracies, l \in BOOLEAN :
    runs = [r |-> 0, best_run |-> 0, best_fitness |-> 0, good_runs |-> <<>>,
            f_threashold |-> f, a_threashold |-> a, arl |-> l,
            front |-> "none", st |-> "running"]

\* One iteration of the loop of run_nvi, from the end of evo.run(r) on.
RunDone ==
  /\ runs.st = "running"
  /\ runs.r < NRuns
  /\ \E run_fitness \in 1..MaxFit, run_accuracy \in Accuracies :
       LET r == runs.r
           better == r = 0 \/ run_fitness > runs.best_fitness
           best_run == IF better THEN r ELSE runs.best_run
           solution_found == /\ run_fitness >= runs.f_threashold
                             /\ run_accuracy >= runs.a_threashold
           good_runs == IF solution_found THEN Append(runs.good_runs, r)
                        ELSE runs.good_runs
           next == [runs EXCEPT !.r = r + 1,
                                !.best_run = best_run,
                                !.best_fitness = IF better THEN run_fitness
                                                 ELSE @,
                                !.good_runs = good_runs]
           asserted == Len(good_runs) = 0 \/ best_run \in Range(good_runs)
       IN  IF runs.arl
             THEN \E x \in front(good_runs) :
                    runs' = [next EXCEPT
                               !.front = x.st,
                               !.st = IF x.st = "crash" THEN "crash"
                                      ELSE IF ~ndebug /\ ~asserted
                                        THEN "abort"
                                      ELSE "running"]
             ELSE runs' = [next EXCEPT
                             !.front = "none",
                             !.st = IF ~ndebug /\ ~asserted THEN "abort"
                                    ELSE "running"]

InitRuns ==
  /\ GenomeOff
  /\ ndebug \in BOOLEAN
  /\ CacheOff
  /\ ThreadsOff
  /\ PrimOff
  /\ InterpOff
  /\ LoadOff
  /\ CatalogOff
  /\ active = {}
  /\ ttab = <<>>
  /\ sch = <<>>
  /\ RunsInit
  /\ exs = <<>>

NextRuns ==
  /\ RunDone
  /\ UNCHANGED <<genomeVars, ndebug, cacheVars, threadVars, primVars,
                 interpVars, loadVars, catalogVars, active, ttab, sch, exs>>

SpecRuns == InitRuns /\ [][NextRuns]_vars

\* C28: after each run, when a run so far was successful, the run recorded
\* as the best one is one of the successful runs and the search goes on.
C28_BestRunSuccessful ==
  Len(runs.good_runs) > 0 =>
    /\ runs.best_run \in Range(runs.good_runs)
    /\ runs.st # "abort"

\* C29: the first element of the list of successful runs is read only when
\* the list is not empty.
C29_FrontOfNonEmpty == runs.front \in {"none", "read"}

(***************************************************************************)
(* A population saved and read back: population::save writes the           *)
(* population of a run to a stream and population::load reads that stream  *)
(* into another population.                                                *)
(***************************************************************************)
\* The layers a run can hold: add_to_layer fills a layer up to
\* env.individuals and pop_from_layer can empty it.
RunLayers == UNION {[1..n -> RandomDe] : n \in 0..EnvIndividuals}

\* The populations a run can hold: add_layer stops at env.layers.
RunPopulations == UNION {[1..n -> RunLayers] : n \in 1..MaxLayers}

\* save() of the population of the run, then load() of the stream it wrote
\* into a population x that was just constructed.
SaveLoad ==
  /\ lret = NoLoad
  /\ stream' = population_save(pop)
  /\ \E x \in NewPopulation :
       \E r \in population_load(x, population_save(pop), ndebug) :
         /\ pop' = r.pop
         /\ lret' = [obj |-> "save_load", ret |-> r.ret]
  /\ UNCHANGED <<prx, lam>>

InitRound ==
  /\ GenomeOff
  /\ ndebug \in BOOLEAN
  /\ CacheOff
  /\ ThreadsOff
  /\ PrimOff
  /\ InterpOff
  /\ CatalogOff
  /\ SearchOff
  /\ stream = <<>>
  /\ pop \in RunPopulations
  /\ prx = OldProxy
  /\ lam = OldLambda
  /\ lret = NoLoad

NextRound ==
  /\ SaveLoad
  /\ UNCHANGED <<genomeVars, ndebug, cacheVars, threadVars, primVars,
                 interpVars, catalogVars,
                 searchVars>>

SpecRound == InitRound /\ [][NextRound]_vars

\* C30: the load of a saved population returns true and the population
\* read has the layers of the saved one, with as many individuals in each
\* layer and an equal individual at every coordinate; the stream kept is
\* the saved population, which save() writes layer by layer.
C30_SaveLoadRoundTrip ==
  lret.obj = "save_load" =>
    /\ lret.ret = "true"
    /\ population_save(pop) = stream

====
